---- MODULE Spec2Model ----
(***************************************************************************)
(* Verification model of the openuem-console authorization gates, the     *)
(* membership / hoster-tenant store operations and the enrollment-token   *)
(* redemption endpoint.                                                    *)
(*                                                                         *)
(* Strings of the program are TLA+ strings, except the "tenant" URL        *)
(* parameter, which is a sequence of one-character strings so that         *)
(* strconv.Atoi can be computed on it.  A Go pointer to an int or to a    *)
(* time.Time is a set with at most one element: {} is nil.                *)
(***************************************************************************)
EXTENDS Integers, Sequences, FiniteSets, TLC

\* ---------------------------------------------------------------- bounds
MaxTenants == 2
MaxTokens == 2
MaxUsesInput == 1
MaxCurrentUses == 2
MaxTime == 2
MaxDelivered == 2
NumProcs == 2
MaxMembers == 2
MaxURLLen == 7
MaxCalls == 2

TenantIDs == 1..MaxTenants
TokenIDs == 1..MaxTokens
Procs == 1..NumProcs
Usernames == {"alice", "bob"}

VARIABLES
    tokens,            \* enrollment_tokens table: a set of rows
    nextTokenID,       \* the table's auto-increment id
    now,               \* the wall clock read by time.Now()
    caCertReadable,    \* whether os.ReadFile(h.CACertPath) succeeds
    resp,              \* the last HTTP response of an enrollment handler
    delivered,         \* history: bundles delivered (status 200) per token id
    user_tenants,      \* user_tenants table: rows per (user, tenant)
    mw,                \* the last outcome of an access middleware
    is_hoster_tenant,  \* tenants.is_hoster_tenant, per tenant id
    hosterCalls,       \* in-flight SetHosterTenant / EnsureHosterTenantExists calls
    memberCalls,       \* in-flight membership calls (statement-level interleaving)
    is_super_admin,    \* users.is_super_admin, per stored user
    superResult,       \* the last return of IsSuperAdmin
    pure,              \* a call of a function without side effects: arguments, returns
    log,               \* the lines the last handler or resolver call wrote to the log
    install            \* a run of an install command on an agent host

vars == <<tokens, nextTokenID, now, caCertReadable, resp, delivered,
          user_tenants, mw, is_hoster_tenant, hosterCalls, memberCalls,
          is_super_admin, superResult, pure, log, install>>

enrollVars == <<tokens, nextTokenID, now, caCertReadable, resp, delivered>>
authVars == <<user_tenants, mw>>
hosterVars == <<is_hoster_tenant, hosterCalls>>
userVars == <<is_super_admin, superResult>>
otherVars == <<user_tenants, mw, is_hoster_tenant, hosterCalls, memberCalls, userVars,
               pure, install>>

\* ------------------------------------------------------- HTTP status codes
StatusOK == 200
StatusBadRequest == 400
StatusForbidden == 403
StatusNotFound == 404
StatusInternalServerError == 500

\* ======================================================================
\* Enrollment tokens
\* ======================================================================

\* uuid.New().String(): the value drawn for the row with the given id (the values
\* are pairwise distinct; UnknownToken is a value never issued).
NewTokenValue(id) == IF id = 1 THEN "1b4e28ba-2fa1-4d3b-a3f5-000000000001"
                     ELSE IF id = 2 THEN "6fa459ea-ee8a-4ca4-894e-000000000002"
                     ELSE IF id = 3 THEN "7c9e6679-7425-40de-944b-000000000003"
                     ELSE "886313e1-3b8a-5372-9b90-000000000004"
UUIDs == {NewTokenValue(id) : id \in TokenIDs}
UnknownToken == "ffffffff-ffff-4fff-8fff-ffffffffffff"
TokenParams == UUIDs \cup {"", UnknownToken}
PlatformParams == {"linux", "macos", "windows", "macos-amd64", "macos-arm64", ""}
ExpiryInputs == {{}, {1}}
MaxUsesInputs == (-1)..MaxUsesInput
SiteInputs == {{}, {1}}

\* log.Printf lines of the handlers (the error detail after the colon left out)
CACertLogLine == "[ERROR]: could not read CA certificate"
DeleteLogLine == "[ERROR]: could not delete enrollment token"
ToggleLogLine == "[ERROR]: could not toggle enrollment token"

\* No install command has been started on the host.
NoInstall == [platform |-> "none", script |-> <<>>, pc |-> 0, ran |-> <<>>,
              preference |-> "none"]

NoResponse == [op |-> "none", status |-> 0, body |-> "", token |-> "", bundle |-> <<>>]

Response(op, status, body, token, bundle) ==
    [op |-> op, status |-> status, body |-> body, token |-> token, bundle |-> bundle]

\* ----------------------------------------------------------------- strings
\* A string is a sequence of tokens: a run of lower-case letters ("tls"), a run of
\* digits ("4433"), or one punctuation character.
DigitTokens == {"4433", "4222"}
PunctTokens == {":", "/", " "}
IsDigitToken(c) == c \in DigitTokens

\* strings.Index / strings.LastIndex of a one-character token, 0 for not found
IndexOf(s, c) ==
    IF \E i \in 1..Len(s) : s[i] = c
    THEN CHOOSE i \in 1..Len(s) : s[i] = c /\ \A j \in 1..(i - 1) : s[j] # c
    ELSE 0

LastIndexOf(s, c) ==
    IF \E i \in 1..Len(s) : s[i] = c
    THEN CHOOSE i \in 1..Len(s) : s[i] = c /\ \A j \in (i + 1)..Len(s) : s[j] # c
    ELSE 0

HasPrefix(s, prefix) ==
    Len(s) >= Len(prefix) /\ SubSeq(s, 1, Len(prefix)) = prefix

\* ----------------------------------------------------------------- net/url
\* getScheme: the letters, digits before the first ':', if the string starts with a
\* letter; an error for a leading ':'; no scheme otherwise.
getScheme(rawURL) ==
    LET stop == IF \E i \in 1..Len(rawURL) : rawURL[i] \in PunctTokens
                THEN CHOOSE i \in 1..Len(rawURL) :
                         /\ rawURL[i] \in PunctTokens
                         /\ \A j \in 1..(i - 1) : rawURL[j] \notin PunctTokens
                ELSE 0
    IN  IF rawURL = <<>> \/ IsDigitToken(rawURL[1]) \/ stop = 0 \/ rawURL[stop] # ":"
        THEN [err |-> FALSE, scheme |-> <<>>, rest |-> rawURL]
        ELSE IF stop = 1
        THEN [err |-> TRUE, scheme |-> <<>>, rest |-> <<>>]
        ELSE [err |-> FALSE, scheme |-> SubSeq(rawURL, 1, stop - 1),
              rest |-> SubSeq(rawURL, stop + 1, Len(rawURL))]

\* validOptionalPort: ":" followed by digits only, possibly none
validOptionalPort(colonPort) ==
    /\ colonPort # <<>> /\ colonPort[1] = ":"
    /\ \A i \in 2..Len(colonPort) : IsDigitToken(colonPort[i])

\* parseHost: an error for an invalid port after the last ':' and for a character
\* that may not stand in a host name.
parseHost(host) ==
    LET i == LastIndexOf(host, ":")
    IN  IF i # 0 /\ ~validOptionalPort(SubSeq(host, i, Len(host)))
        THEN [err |-> TRUE, host |-> <<>>]
        ELSE IF \E j \in 1..Len(host) : host[j] = " "
        THEN [err |-> TRUE, host |-> <<>>]
        ELSE [err |-> FALSE, host |-> host]

\* url.Parse: Scheme, Opaque and Host of the URL, or an error.
URL(err, scheme, opaque, host) ==
    [err |-> err, Scheme |-> scheme, Opaque |-> opaque, Host |-> host]

url_Parse(rawURL) ==
    LET s == getScheme(rawURL)
        rest == s.rest
        slash == IndexOf(rest, "/")
        segment == IF slash = 0 THEN rest ELSE SubSeq(rest, 1, slash - 1)
        afterSlashes == SubSeq(rest, 3, Len(rest))
        end == IndexOf(afterSlashes, "/")
        authority == IF end = 0 THEN afterSlashes ELSE SubSeq(afterSlashes, 1, end - 1)
        h == parseHost(authority)
    IN  IF s.err THEN URL(TRUE, <<>>, <<>>, <<>>)
        ELSE IF ~HasPrefix(rest, <<"/">>) /\ s.scheme # <<>>
        THEN URL(FALSE, s.scheme, rest, <<>>)
        ELSE IF ~HasPrefix(rest, <<"/">>) /\ IndexOf(segment, ":") # 0
        THEN URL(TRUE, <<>>, <<>>, <<>>)
        ELSE IF /\ s.scheme # <<>> \/ ~HasPrefix(rest, <<"/", "/", "/">>)
                /\ HasPrefix(rest, <<"/", "/">>)
        THEN IF h.err THEN URL(TRUE, <<>>, <<>>, <<>>)
             ELSE URL(FALSE, s.scheme, <<>>, h.host)
        ELSE URL(FALSE, s.scheme, <<>>, <<>>)

\* (*URL).Port: what follows the last ':' of Host, if it is a valid port
Port(u) ==
    LET colon == LastIndexOf(u.Host, ":")
    IN  IF colon # 0 /\ validOptionalPort(SubSeq(u.Host, colon, Len(u.Host)))
        THEN SubSeq(u.Host, colon + 1, Len(u.Host))
        ELSE <<>>

\* The configuration provider: h.NATSServers and h.Domain.
NATSServers == <<"tls", ":", "/", "/", "nats", ":", "4433">>
Domain == <<"console.example.com">>
DefaultNATSPort == <<"4433">>

\* Mutant of deriveExternalNATSURL: a URL without a port gets none.
deriveExternalNATSURL_NoDefaultPort(internalNATS, domain) ==
    LET parsed == url_Parse(internalNATS)
    IN  IF parsed.err \/ domain = <<>> THEN internalNATS
        ELSE parsed.Scheme \o <<":", "/", "/">> \o domain \o <<":">> \o Port(parsed)

deriveExternalNATSURL(internalNATS, domain) ==
    LET parsed == url_Parse(internalNATS)
        port == IF Port(parsed) = <<>> THEN DefaultNATSPort ELSE Port(parsed)
    IN  IF parsed.err \/ domain = <<>> THEN internalNATS
        ELSE parsed.Scheme \o <<":", "/", "/">> \o domain \o <<":">> \o port

\* The lines "key=value" of the INI document, in the order written, by section.
Line(section, key, value) == [section |-> section, key |-> key, value |-> value]

\* Paths as token sequences: components and separators.
WindowsCertificates ==
    <<"C:", "\\", "Program Files", "\\", "EigerCode", "\\", "AltiviewAgent", "\\",
      "certificates", "\\">>
RelativeCertificates == <<"certificates", "/">>

CertificateLines(dir) ==
    <<Line("Certificates", "CACert", dir \o <<"ca.cer">>),
      Line("Certificates", "AgentCert", dir \o <<"agent.cer">>),
      Line("Certificates", "AgentKey", dir \o <<"agent.key">>),
      Line("Certificates", "SFTPCert", dir \o <<"sftp.cer">>)>>

AgentLines(token) ==
    <<Line("Agent", "UUID", <<>>),
      Line("Agent", "Enabled", <<"true">>),
      Line("Agent", "ExecuteTaskEveryXMinutes", <<"5">>),
      Line("Agent", "Debug", <<"false">>),
      Line("Agent", "DefaultFrequency", <<"5">>),
      Line("Agent", "SFTPPort", <<"2022">>),
      Line("Agent", "VNCProxyPort", <<"5900">>),
      Line("Agent", "SFTPDisabled", <<"false">>),
      Line("Agent", "RemoteAssistanceDisabled", <<"false">>),
      Line("Agent", "EnrollmentToken", <<token>>)>>

\* Mutant of generatePlatformConfigINI: macos gets the Windows paths as well.
generatePlatformConfigINI_MacAsWindows(platform, natsServers, token) ==
    AgentLines(token)
        \o <<Line("NATS", "NATSServers", natsServers)>>
        \o (IF platform \in {"windows", "macos"} THEN CertificateLines(WindowsCertificates)
            ELSE CertificateLines(RelativeCertificates))

generatePlatformConfigINI(platform, natsServers, token) ==
    AgentLines(token)
        \o <<Line("NATS", "NATSServers", natsServers)>>
        \o (IF platform = "windows" THEN CertificateLines(WindowsCertificates)
            ELSE CertificateLines(RelativeCertificates))

generateConfigINI(natsServers, token) ==
    AgentLines(token)
        \o <<Line("NATS", "NATSServers", natsServers)>>
        \o CertificateLines(RelativeCertificates)

\* The store layer of the tokens (internal/models; its file is not part of the
\* sources at hand, the handlers' calls are).
NewEnrollmentToken(id, tenantID, siteID, tokenValue, maxUses, expiresAt) ==
    [id |-> id, tenant_id |-> tenantID, site_id |-> siteID, token |-> tokenValue,
     active |-> TRUE, max_uses |-> maxUses, current_uses |-> 0, expires_at |-> expiresAt]

GetEnrollmentTokenByValue(tokenValue) == {t \in tokens : t.token = tokenValue}

GetEnrollmentTokenByID(tokenID) == {t \in tokens : t.id = tokenID}

SetActive(t, active) == [t EXCEPT !.active = active]

\* Mutant of IsExpired: !After(now) instead of Before(now).
IsExpired_NotAfter(t, time) == \E e \in t.expires_at : e <= time

\* token.ExpiresAt != nil && token.ExpiresAt.Before(time.Now())
IsExpired(t, time) == \E e \in t.expires_at : e < time

\* token.MaxUses > 0 && token.CurrentUses >= token.MaxUses
UsageLimitReached(t) == t.max_uses > 0 /\ t.current_uses >= t.max_uses

\* externalNATS := deriveExternalNATSURL(h.NATSServers, h.Domain)
externalNATS == deriveExternalNATSURL(NATSServers, Domain)

\* Mutant of RedemptionPlatform: macos is not among the cases.
RedemptionPlatform_NoMacos(platform) ==
    IF platform \in {"linux", "windows"} THEN platform ELSE "linux"

\* switch platform { case "linux", "macos", "windows": default: platform = "linux" }
RedemptionPlatform(platform) ==
    IF platform \in {"linux", "macos", "windows"} THEN platform ELSE "linux"

\* Mutant of PublicDownloadConfigResponse: the active flag is not looked at.
PublicDownloadConfigResponse_NoActiveCheck(tokenValue, platform) ==
    LET found == GetEnrollmentTokenByValue(tokenValue)
        R(status, body) == Response("PublicDownloadConfig", status, body, tokenValue, <<>>)
    IN  IF tokenValue = "" THEN R(StatusBadRequest, "missing token")
        ELSE IF found = {} THEN R(StatusNotFound, "invalid token")
        ELSE LET token == CHOOSE t \in found : TRUE
             IN  IF IsExpired(token, now) THEN R(StatusForbidden, "token has expired")
                 ELSE IF UsageLimitReached(token)
                      THEN R(StatusForbidden, "token usage limit reached")
                 ELSE IF ~caCertReadable
                      THEN R(StatusInternalServerError, "could not read CA certificate")
                 ELSE Response("PublicDownloadConfig", StatusOK, "application/zip", tokenValue,
                          [platform |-> RedemptionPlatform(platform),
                           ini |-> generatePlatformConfigINI(RedemptionPlatform(platform),
                                       externalNATS, token.token),
                           ca |-> "certificates/ca.cer"])

\* Mutant of PublicDownloadConfigResponse: the expiry check precedes the active check.
PublicDownloadConfigResponse_ExpiryFirst(tokenValue, platform) ==
    LET found == GetEnrollmentTokenByValue(tokenValue)
        R(status, body) == Response("PublicDownloadConfig", status, body, tokenValue, <<>>)
    IN  IF tokenValue = "" THEN R(StatusBadRequest, "missing token")
        ELSE IF found = {} THEN R(StatusNotFound, "invalid token")
        ELSE LET token == CHOOSE t \in found : TRUE
             IN  IF IsExpired(token, now) THEN R(StatusForbidden, "token has expired")
                 ELSE IF ~token.active THEN R(StatusForbidden, "token is inactive")
                 ELSE IF UsageLimitReached(token)
                      THEN R(StatusForbidden, "token usage limit reached")
                 ELSE IF ~caCertReadable
                      THEN R(StatusInternalServerError, "could not read CA certificate")
                 ELSE Response("PublicDownloadConfig", StatusOK, "application/zip", tokenValue,
                          [platform |-> RedemptionPlatform(platform),
                           ini |-> generatePlatformConfigINI(RedemptionPlatform(platform),
                                       externalNATS, token.token),
                           ca |-> "certificates/ca.cer"])

\* Mutant of PublicDownloadConfigResponse: the usage check precedes the expiry check.
PublicDownloadConfigResponse_UsageFirst(tokenValue, platform) ==
    LET found == GetEnrollmentTokenByValue(tokenValue)
        R(status, body) == Response("PublicDownloadConfig", status, body, tokenValue, <<>>)
    IN  IF tokenValue = "" THEN R(StatusBadRequest, "missing token")
        ELSE IF found = {} THEN R(StatusNotFound, "invalid token")
        ELSE LET token == CHOOSE t \in found : TRUE
             IN  IF ~token.active THEN R(StatusForbidden, "token is inactive")
                 ELSE IF UsageLimitReached(token)
                      THEN R(StatusForbidden, "token usage limit reached")
                 ELSE IF IsExpired(token, now) THEN R(StatusForbidden, "token has expired")
                 ELSE IF ~caCertReadable
                      THEN R(StatusInternalServerError, "could not read CA certificate")
                 ELSE Response("PublicDownloadConfig", StatusOK, "application/zip", tokenValue,
                          [platform |-> RedemptionPlatform(platform),
                           ini |-> generatePlatformConfigINI(RedemptionPlatform(platform),
                                       externalNATS, token.token),
                           ca |-> "certificates/ca.cer"])

\* The response PublicDownloadConfig computes, in the order of its returns.
PublicDownloadConfigResponse(tokenValue, platform) ==
    LET found == GetEnrollmentTokenByValue(tokenValue)
        R(status, body) == Response("PublicDownloadConfig", status, body, tokenValue, <<>>)
    IN  IF tokenValue = "" THEN R(StatusBadRequest, "missing token")
        ELSE IF found = {} THEN R(StatusNotFound, "invalid token")
        ELSE LET token == CHOOSE t \in found : TRUE
             IN  IF ~token.active THEN R(StatusForbidden, "token is inactive")
                 ELSE IF IsExpired(token, now) THEN R(StatusForbidden, "token has expired")
                 ELSE IF UsageLimitReached(token)
                      THEN R(StatusForbidden, "token usage limit reached")
                 ELSE IF ~caCertReadable
                      THEN R(StatusInternalServerError, "could not read CA certificate")
                 ELSE Response("PublicDownloadConfig", StatusOK, "application/zip", tokenValue,
                          [platform |-> RedemptionPlatform(platform),
                           ini |-> generatePlatformConfigINI(RedemptionPlatform(platform),
                                       externalNATS, token.token),
                           ca |-> "certificates/ca.cer"])

\* Mutant of PublicDownloadConfig: current_uses is incremented once the token has
\* passed its checks, before the CA certificate is read.
PublicDownloadConfig_IncrementFirst(tokenValue, platform) ==
    LET r == PublicDownloadConfigResponse(tokenValue, platform)
        found == GetEnrollmentTokenByValue(tokenValue)
        passed == r.status \in {StatusOK, StatusInternalServerError}
    IN  /\ resp' = r
        /\ tokens' = IF passed
                     THEN (tokens \ found) \cup
                              {[t EXCEPT !.current_uses = @ + 1] : t \in found}
                     ELSE tokens
        /\ passed => \A t \in found : t.current_uses < MaxCurrentUses
        /\ IF r.status = StatusOK
           THEN \E t \in found :
                    /\ delivered[t.id] < MaxDelivered
                    /\ delivered' = [delivered EXCEPT ![t.id] = @ + 1]
           ELSE UNCHANGED delivered
        /\ UNCHANGED <<nextTokenID, now, caCertReadable>>
        /\ UNCHANGED otherVars
        /\ log' = IF r.status = StatusInternalServerError THEN {CACertLogLine} ELSE {}

\* The handler writes nothing to the store: no statement of it changes the token.
\* (The archive is written to an in-memory buffer; those writes do not fail.)
PublicDownloadConfig(tokenValue, platform) ==
    LET r == PublicDownloadConfigResponse(tokenValue, platform)
        found == GetEnrollmentTokenByValue(tokenValue)
    IN  /\ resp' = r
        /\ IF r.status = StatusOK
           THEN \E t \in found :
                    /\ delivered[t.id] < MaxDelivered
                    /\ delivered' = [delivered EXCEPT ![t.id] = @ + 1]
           ELSE UNCHANGED delivered
        /\ UNCHANGED <<tokens, nextTokenID, now, caCertReadable>>
        /\ UNCHANGED otherVars
        /\ log' = IF r.status = StatusInternalServerError THEN {CACertLogLine} ELSE {}

\* RenderError: the error partial rendered into the page (the view layer sets the
\* status).
RenderError(op, message) == Response(op, 0, message, "", <<>>)

\* The session-protected download of the bundle of the token with the given id.
DownloadConfigZIPResponse(tokenID) ==
    LET found == GetEnrollmentTokenByID(tokenID)
    IN  IF found = {} THEN RenderError("DownloadConfigZIP", "token not found")
        ELSE LET token == CHOOSE t \in found : TRUE
             IN  IF ~caCertReadable
                 THEN RenderError("DownloadConfigZIP", "Could not read CA certificate")
                 ELSE Response("DownloadConfigZIP", StatusOK, "application/zip", token.token,
                          [platform |-> "",
                           ini |-> generateConfigINI(
                                       externalNATS, token.token),
                           ca |-> "certificates/ca.cer"])

DownloadConfigZIP(tokenID) ==
    /\ resp' = DownloadConfigZIPResponse(tokenID)
    /\ UNCHANGED <<tokens, nextTokenID, now, caCertReadable, delivered>>
    /\ UNCHANGED otherVars
    /\ log' = IF GetEnrollmentTokenByID(tokenID) # {} /\ ~caCertReadable
               THEN {CACertLogLine} ELSE {}

\* The platforms GetInstallCommand offers.
InstallPlatforms == {"linux", "macos-amd64", "macos-arm64", "windows"}

\* switch platform { case "linux", "macos-amd64", "macos-arm64", "windows": default:
\* platform = "linux" }
InstallPlatform(platform) ==
    IF platform \in {"linux", "macos-amd64", "macos-arm64", "windows"} THEN platform
    ELSE "linux"

\* The one-liner of a platform: the "platform" query parameter of the redemption URL
\* in it, the token in the URL's path, and the agent package it installs.
\* A step of a one-liner: what it does, the command that does it, how a failure of
\* the command shows ("exit": a non-zero exit status; "error": a PowerShell error;
\* "none": it does not fail), and the separator that follows it in the line.
Step(name, command, failure, sep) ==
    [name |-> name, command |-> command, failure |-> failure, sep |-> sep]

\* sudo bash -c 'curl ... -o /tmp/c.zip && unzip ... && curl ... -o /tmp/a.deb &&
\* dpkg -i /tmp/a.deb && rm /tmp/c.zip /tmp/a.deb'
generateLinuxOneLiner(token) ==
    [selector |-> "linux", token |-> token, package |-> "altiview-agent-linux-amd64.deb",
     shell |-> "bash",
     script |-> <<Step("fetch-bundle", "curl", "exit", "&&"),
                  Step("unpack", "unzip", "exit", "&&"),
                  Step("fetch-package", "curl", "exit", "&&"),
                  Step("install", "dpkg", "exit", "&&"),
                  Step("cleanup", "rm", "exit", "")>>]

\* sudo bash -c 'curl ... -o /tmp/c.zip && unzip ... && curl ... -o /tmp/a.pkg &&
\* installer -pkg /tmp/a.pkg -target / && rm /tmp/c.zip /tmp/a.pkg'
generateMacOSOneLiner(token, arch) ==
    [selector |-> "macos", token |-> token,
     package |-> IF arch = "amd64" THEN "altiview-agent-darwin-amd64.pkg"
                 ELSE "altiview-agent-darwin-arm64.pkg",
     shell |-> "bash",
     script |-> <<Step("fetch-bundle", "curl", "exit", "&&"),
                  Step("unpack", "unzip", "exit", "&&"),
                  Step("fetch-package", "curl", "exit", "&&"),
                  Step("install", "installer", "exit", "&&"),
                  Step("cleanup", "rm", "exit", "")>>]

\* $d=...; Invoke-WebRequest ... -OutFile c.zip; Expand-Archive c.zip $d -Force;
\* Invoke-WebRequest ... -OutFile a.msi; Start-Process msiexec "/i a.msi /qn" -Wait;
\* Remove-Item c.zip,a.msi
\* Start-Process -Wait returns when msiexec exits and does not look at its exit code.
generateWindowsOneLiner(token) ==
    [selector |-> "windows", token |-> token,
     package |-> "altiview-agent-windows-amd64.msi",
     shell |-> "powershell",
     script |-> <<Step("set", "$d=", "none", ";"),
                  Step("fetch-bundle", "Invoke-WebRequest", "error", ";"),
                  Step("unpack", "Expand-Archive", "error", ";"),
                  Step("fetch-package", "Invoke-WebRequest", "error", ";"),
                  Step("install", "Start-Process msiexec -Wait", "exit", ";"),
                  Step("cleanup", "Remove-Item", "error", "")>>]

\* switch platform { case "linux": ... case "macos-amd64": ... case "macos-arm64": ...
\* case "windows": ... }
OneLiner(p, token) ==
    CASE p = "linux" -> generateLinuxOneLiner(token)
      [] p = "macos-amd64" -> generateMacOSOneLiner(token, "amd64")
      [] p = "macos-arm64" -> generateMacOSOneLiner(token, "arm64")
      [] p = "windows" -> generateWindowsOneLiner(token)

GetInstallCommandResponse(tokenID, platform) ==
    LET found == GetEnrollmentTokenByID(tokenID)
        p == InstallPlatform(platform)
    IN  IF found = {} THEN RenderError("GetInstallCommand", "token not found")
        ELSE LET token == CHOOSE t \in found : TRUE
                 command == OneLiner(p, token.token)
             IN  Response("GetInstallCommand", StatusOK, "InstallCommand", token.token,
                          [platform |-> p, command |-> command])

GetInstallCommand(tokenID, platform) ==
    /\ resp' = GetInstallCommandResponse(tokenID, platform)
    /\ UNCHANGED <<tokens, nextTokenID, now, caCertReadable, delivered>>
    /\ UNCHANGED otherVars
    /\ log' = {}

\* strconv.Itoa of a one-digit id
DigitChar(n) ==
    CASE n = 0 -> "0" [] n = 1 -> "1" [] n = 2 -> "2" [] n = 3 -> "3" [] n = 4 -> "4"
      [] n = 5 -> "5" [] n = 6 -> "6" [] n = 7 -> "7" [] n = 8 -> "8" [] n = 9 -> "9"

\* GetEnrollmentTokens(tenantID): the rows of the tenant.
GetEnrollmentTokens(tenantID) == {t \in tokens : t.tenant_id = tenantID}

\* The list page of the tenant the request addresses.
ListEnrollmentTokens(tenantID) ==
    /\ resp' = Response("ListEnrollmentTokens", StatusOK, "EnrollmentTokens", "",
                        [tokens |-> GetEnrollmentTokens(tenantID)])
    /\ log' = {}
    /\ UNCHANGED <<tokens, nextTokenID, now, caCertReadable, delivered>>
    /\ UNCHANGED otherVars

\* if platform != "linux" && platform != "windows" { platform = "linux" }
ScriptPlatform(platform) == IF platform \in {"linux", "windows"} THEN platform ELSE "linux"

\* The configuration the enrollment scripts write: the [Agent] lines with TenantID,
\* SiteID and EnrollmentToken, the [NATS] line, the CA certificate path.
ScriptLines(natsServers, tenantID, siteID, token, caCert) ==
    SubSeq(AgentLines(token), 1, 9)
        \o <<Line("Agent", "TenantID", tenantID),
             Line("Agent", "SiteID", siteID),
             Line("Agent", "EnrollmentToken", <<token>>),
             Line("NATS", "NATSServers", natsServers),
             Line("Certificates", "CACert", caCert)>>

generateLinuxScript(natsServers, tenantID, siteID, token, caCertB64) ==
    [shell |-> "bash", generated |-> now, ca |-> caCertB64,
     ini |-> ScriptLines(natsServers, tenantID, siteID, token,
                         <<"$CERT_DIR", "/", "ca.cer">>)]

generateWindowsScript(natsServers, tenantID, siteID, token, caCertB64) ==
    [shell |-> "powershell", generated |-> now, ca |-> caCertB64,
     ini |-> ScriptLines(natsServers, tenantID, siteID, token,
                         <<"$CertDir", "\\", "ca.cer">>)]

\* The enrollment script of the token with the given id; written says whether
\* os.WriteFile into the download directory succeeded.
DownloadInstallerScriptResponse(tokenID, platform, written) ==
    LET found == GetEnrollmentTokenByID(tokenID)
        p == ScriptPlatform(platform)
    IN  IF found = {} THEN RenderError("DownloadInstallerScript", "token not found")
        ELSE LET token == CHOOSE t \in found : TRUE
                 tenantID == <<DigitChar(token.tenant_id)>>
                 siteID == IF token.site_id = {} THEN <<>>
                           ELSE <<DigitChar(CHOOSE site \in token.site_id : TRUE)>>
                 caCertB64 == "base64(ca.cer)"
                 script == IF p = "windows"
                           THEN generateWindowsScript(NATSServers, tenantID, siteID,
                                                      token.token, caCertB64)
                           ELSE generateLinuxScript(NATSServers, tenantID, siteID,
                                                    token.token, caCertB64)
             IN  IF ~caCertReadable
                 THEN RenderError("DownloadInstallerScript",
                                  "Could not read CA certificate")
                 ELSE IF ~written
                      THEN RenderError("DownloadInstallerScript",
                                       "Could not create script file")
                 ELSE Response("DownloadInstallerScript", StatusOK, "attachment",
                               token.token, [platform |-> p, script |-> script])

DownloadInstallerScript(tokenID, platform, written) ==
    /\ resp' = DownloadInstallerScriptResponse(tokenID, platform, written)
    /\ log' = IF GetEnrollmentTokenByID(tokenID) # {} /\ ~caCertReadable
              THEN {CACertLogLine} ELSE {}
    /\ UNCHANGED <<tokens, nextTokenID, now, caCertReadable, delivered>>
    /\ UNCHANGED otherVars

\* The host's shell runs an install command. Preferences is $ErrorActionPreference
\* of the PowerShell session (Continue unless the session changed it); bash has none.
Preferences(shell) == IF shell = "powershell" THEN {"Continue", "Stop"} ELSE {"none"}

RunInstallCommand(platform, preference) ==
    LET command == OneLiner(InstallPlatform(platform), NewTokenValue(1))
    IN  /\ install.pc \notin 1..Len(install.script)
        /\ preference \in Preferences(command.shell)
        /\ install' = [platform |-> InstallPlatform(platform), script |-> command.script,
                       pc |-> 1, ran |-> <<>>, preference |-> preference]
        /\ UNCHANGED <<enrollVars, authVars, hosterVars, memberCalls, userVars, pure, log>>

\* The step after the one at pc that ended ok or not: a && b runs b only if a exited
\* with status 0, and a failed a ends the whole && list; a; b runs b after a,
\* unless a raised an error and the preference is Stop, which ends the line.
NextStep(run, ok) ==
    LET step == run.script[run.pc]
        end == Len(run.script) + 1
    IN  IF step.sep = "" THEN end
        ELSE IF ok THEN run.pc + 1
        ELSE IF step.sep = "&&" THEN end
        ELSE IF step.failure = "error" /\ run.preference = "Stop" THEN end
        ELSE run.pc + 1

RunStep(ok) ==
    /\ install.pc \in 1..Len(install.script)
    /\ install.script[install.pc].failure = "none" => ok
    /\ install' = [install EXCEPT !.pc = NextStep(install, ok),
                                  !.ran = Append(@, [name |-> install.script[install.pc].name,
                                                     ok |-> ok])]
    /\ UNCHANGED <<enrollVars, authVars, hosterVars, memberCalls, userVars, pure, log>>

CreateEnrollmentToken(tenantID, siteID, maxUses, expiresAt) ==
    /\ nextTokenID <= MaxTokens
    /\ tokens' = tokens \cup
           {NewEnrollmentToken(nextTokenID, tenantID, siteID, NewTokenValue(nextTokenID),
                               maxUses, expiresAt)}
    /\ nextTokenID' = nextTokenID + 1
    /\ resp' = Response("CreateEnrollmentToken", StatusOK, "EnrollmentTokens", "", <<>>)
    /\ UNCHANGED <<now, caCertReadable, delivered>>
    /\ UNCHANGED otherVars
    /\ log' = {}

DeleteEnrollmentToken(tokenID) ==
    /\ IF GetEnrollmentTokenByID(tokenID) = {}
       THEN /\ resp' = Response("DeleteEnrollmentToken", StatusOK, "error", "", <<>>)
            /\ UNCHANGED tokens
       ELSE /\ tokens' = tokens \ GetEnrollmentTokenByID(tokenID)
            /\ resp' = Response("DeleteEnrollmentToken", StatusOK, "EnrollmentTokens", "", <<>>)
    /\ UNCHANGED <<nextTokenID, now, caCertReadable, delivered>>
    /\ UNCHANGED otherVars
    /\ log' = IF GetEnrollmentTokenByID(tokenID) = {} THEN {DeleteLogLine} ELSE {}

\* Mutant of ToggleEnrollmentToken: the update also resets the counter of the row.
ToggleEnrollmentToken_ResetUses(tokenID, active) ==
    /\ IF GetEnrollmentTokenByID(tokenID) = {}
       THEN /\ resp' = Response("ToggleEnrollmentToken", StatusOK, "error", "", <<>>)
            /\ UNCHANGED tokens
       ELSE /\ tokens' = {IF t.id = tokenID
                          THEN [SetActive(t, active) EXCEPT !.current_uses = 0]
                          ELSE t : t \in tokens}
            /\ resp' = Response("ToggleEnrollmentToken", StatusOK, "EnrollmentTokens", "", <<>>)
    /\ UNCHANGED <<nextTokenID, now, caCertReadable, delivered>>
    /\ UNCHANGED otherVars
    /\ log' = IF GetEnrollmentTokenByID(tokenID) = {} THEN {ToggleLogLine} ELSE {}

ToggleEnrollmentToken(tokenID, active) ==
    /\ IF GetEnrollmentTokenByID(tokenID) = {}
       THEN /\ resp' = Response("ToggleEnrollmentToken", StatusOK, "error", "", <<>>)
            /\ UNCHANGED tokens
       ELSE /\ tokens' = {IF t.id = tokenID THEN SetActive(t, active) ELSE t : t \in tokens}
            /\ resp' = Response("ToggleEnrollmentToken", StatusOK, "EnrollmentTokens", "", <<>>)
    /\ UNCHANGED <<nextTokenID, now, caCertReadable, delivered>>
    /\ UNCHANGED otherVars
    /\ log' = IF GetEnrollmentTokenByID(tokenID) = {} THEN {ToggleLogLine} ELSE {}

\* The environment: time passes, the CA certificate file appears or disappears.
Tick ==
    /\ now < MaxTime
    /\ now' = now + 1
    /\ UNCHANGED <<tokens, nextTokenID, caCertReadable, resp, delivered>>
    /\ UNCHANGED otherVars
    /\ UNCHANGED log

SetCACertReadable(readable) ==
    /\ caCertReadable # readable
    /\ caCertReadable' = readable
    /\ UNCHANGED <<tokens, nextTokenID, now, resp, delivered>>
    /\ UNCHANGED otherVars
    /\ UNCHANGED log


\* ======================================================================
\* User-tenant memberships
\* ======================================================================

UserTenantRoleAdmin == "admin"
UserTenantRoleOperator == "operator"
UserTenantRoleUser == "user"
Roles == {UserTenantRoleAdmin, UserTenantRoleOperator, UserTenantRoleUser}

\* The rows of user_tenants with the given user and tenant, oldest first.  No
\* tenant has an id outside TenantIDs, so no row has one.
RowsIn(table, userID, tenantID) ==
    IF <<userID, tenantID>> \in DOMAIN table THEN table[<<userID, tenantID>>] ELSE <<>>

Rows(userID, tenantID) == RowsIn(user_tenants, userID, tenantID)

EmptyUserTenants == [k \in Usernames \X TenantIDs |-> <<>>]

\* The statements the membership functions send to the store, as functions of the
\* table.
\* UserTenant.Update().Where(UserID(userID)).SetIsDefault(false)
ClearDefault(table, userID) ==
    [k \in DOMAIN table |->
        IF k[1] = userID
        THEN [i \in 1..Len(table[k]) |-> [table[k][i] EXCEPT !.is_default = FALSE]]
        ELSE table[k]]

\* UserTenant.Update().Where(UserID(userID), TenantID(tenantID)).SetIsDefault(true)
SetDefault(table, userID, tenantID) ==
    [k \in DOMAIN table |->
        IF k = <<userID, tenantID>>
        THEN [i \in 1..Len(table[k]) |-> [table[k][i] EXCEPT !.is_default = TRUE]]
        ELSE table[k]]

\* UserTenant.Create().SetUserID().SetTenantID().SetRole().SetIsDefault()
CreateRow(table, userID, tenantID, role, isDefault) ==
    [table EXCEPT ![<<userID, tenantID>>] =
        Append(@, [role |-> role, is_default |-> isDefault])]

\* UserTenant.Delete().Where(UserID(userID), TenantID(tenantID))
DeleteRows(table, userID, tenantID) ==
    [table EXCEPT ![<<userID, tenantID>>] = <<>>]

\* UserTenant.Update().Where(UserID(userID), TenantID(tenantID)).SetRole(role)
SetRole(table, userID, tenantID, role) ==
    [k \in DOMAIN table |->
        IF k = <<userID, tenantID>>
        THEN [i \in 1..Len(table[k]) |-> [table[k][i] EXCEPT !.role = role]]
        ELSE table[k]]

\* Query().Where(UserID, TenantID).Exist()
UserHasAccessToTenant(userID, tenantID) ==
    [err |-> FALSE, hasAccess |-> Len(Rows(userID, tenantID)) > 0]

\* Query().Where(UserID, TenantID).Only(): an error unless exactly one row matches.
GetUserRoleInTenant(userID, tenantID) ==
    LET rows == Rows(userID, tenantID)
    IN  IF Len(rows) = 1 THEN [err |-> FALSE, role |-> rows[1].role]
        ELSE [err |-> TRUE, role |-> ""]

IsUserTenantAdmin(userID, tenantID) ==
    LET r == GetUserRoleInTenant(userID, tenantID)
    IN  IF r.err THEN [err |-> TRUE, isAdmin |-> FALSE]
        ELSE [err |-> FALSE, isAdmin |-> r.role = UserTenantRoleAdmin]

\* The membership functions, each run to completion (the store statements of one
\* call with no other call in between).
\* The number of (user, tenant) pairs that have a membership row.
MemberCount ==
    Cardinality({k \in Usernames \X TenantIDs : Len(Rows(k[1], k[2])) > 0})

AssignUserToTenant(userID, tenantID, role, isDefault) ==
    /\ Len(Rows(userID, tenantID)) > 0 \/ MemberCount < MaxMembers
    /\ user_tenants' =
           IF Len(Rows(userID, tenantID)) > 0 THEN user_tenants
           ELSE CreateRow(IF isDefault THEN ClearDefault(user_tenants, userID)
                          ELSE user_tenants,
                          userID, tenantID, role, isDefault)
    /\ UNCHANGED <<mw, memberCalls>>
    /\ UNCHANGED <<enrollVars, hosterVars, userVars, pure, log, install>>

RemoveUserFromTenant(userID, tenantID) ==
    /\ user_tenants' = DeleteRows(user_tenants, userID, tenantID)
    /\ UNCHANGED <<mw, memberCalls>>
    /\ UNCHANGED <<enrollVars, hosterVars, userVars, pure, log, install>>

UpdateUserTenantRole(userID, tenantID, role) ==
    /\ user_tenants' = SetRole(user_tenants, userID, tenantID, role)
    /\ UNCHANGED <<mw, memberCalls>>
    /\ UNCHANGED <<enrollVars, hosterVars, userVars, pure, log, install>>

\* ======================================================================
\* Membership calls, statement by statement
\* ======================================================================

\* Each worker runs one call at a time; a call sends its statements to the store one
\* by one, and the statements of different workers interleave.
IdleCall == [op |-> "idle", pc |-> "idle", user |-> "", tenant |-> 0, role |-> "",
             isDefault |-> FALSE]

MemberUsers == {"alice"}
MemberRoles == {UserTenantRoleAdmin, UserTenantRoleUser}

AssignUserToTenantCall(p, userID, tenantID, role, isDefault) ==
    /\ memberCalls[p] = IdleCall
    /\ memberCalls' = [memberCalls EXCEPT ![p] =
           [op |-> "AssignUserToTenant", pc |-> "exist", user |-> userID,
            tenant |-> tenantID, role |-> role, isDefault |-> isDefault]]
    /\ UNCHANGED <<user_tenants, mw>>
    /\ UNCHANGED <<enrollVars, hosterVars, userVars, pure, log, install>>

\* Query().Where(UserID, TenantID).Exist(), and the return if the row exists
AssignUserToTenantExist(p) ==
    LET c == memberCalls[p]
    IN  /\ c.op = "AssignUserToTenant" /\ c.pc = "exist"
        /\ memberCalls' = [memberCalls EXCEPT ![p] =
               IF Len(Rows(c.user, c.tenant)) > 0 THEN IdleCall
               ELSE [c EXCEPT !.pc = IF c.isDefault THEN "clear" ELSE "create"]]
        /\ UNCHANGED <<user_tenants, mw>>
        /\ UNCHANGED <<enrollVars, hosterVars, userVars, pure, log, install>>

AssignUserToTenantClear(p) ==
    LET c == memberCalls[p]
    IN  /\ c.op = "AssignUserToTenant" /\ c.pc = "clear"
        /\ user_tenants' = ClearDefault(user_tenants, c.user)
        /\ memberCalls' = [memberCalls EXCEPT ![p] = [c EXCEPT !.pc = "create"]]
        /\ UNCHANGED mw
        /\ UNCHANGED <<enrollVars, hosterVars, userVars, pure, log, install>>

\* Mutant of AssignUserToTenantCreate: the store accepts a second row with the key.
AssignUserToTenantCreate_NoKey(p) ==
    LET c == memberCalls[p]
    IN  /\ c.op = "AssignUserToTenant" /\ c.pc = "create"
        /\ user_tenants' = CreateRow(user_tenants, c.user, c.tenant, c.role, c.isDefault)
        /\ memberCalls' = [memberCalls EXCEPT ![p] = IdleCall]
        /\ UNCHANGED mw
        /\ UNCHANGED <<enrollVars, hosterVars, userVars, pure, log, install>>

\* Create()...Save(ctx). The store holds one row per (user, tenant): a Save that
\* finds the row written by another call since the Exist query returns an error and
\* writes nothing.
AssignUserToTenantCreate(p) ==
    LET c == memberCalls[p]
    IN  /\ c.op = "AssignUserToTenant" /\ c.pc = "create"
        /\ user_tenants' = IF Len(Rows(c.user, c.tenant)) > 0 THEN user_tenants
                           ELSE CreateRow(user_tenants, c.user, c.tenant, c.role,
                                          c.isDefault)
        /\ memberCalls' = [memberCalls EXCEPT ![p] = IdleCall]
        /\ UNCHANGED mw
        /\ UNCHANGED <<enrollVars, hosterVars, userVars, pure, log, install>>

SetUserDefaultTenantCall(p, userID, tenantID) ==
    /\ memberCalls[p] = IdleCall
    /\ memberCalls' = [memberCalls EXCEPT ![p] =
           [op |-> "SetUserDefaultTenant", pc |-> "clear", user |-> userID,
            tenant |-> tenantID, role |-> "", isDefault |-> TRUE]]
    /\ UNCHANGED <<user_tenants, mw>>
    /\ UNCHANGED <<enrollVars, hosterVars, userVars, pure, log, install>>

SetUserDefaultTenantClear(p) ==
    LET c == memberCalls[p]
    IN  /\ c.op = "SetUserDefaultTenant" /\ c.pc = "clear"
        /\ user_tenants' = ClearDefault(user_tenants, c.user)
        /\ memberCalls' = [memberCalls EXCEPT ![p] = [c EXCEPT !.pc = "set"]]
        /\ UNCHANGED mw
        /\ UNCHANGED <<enrollVars, hosterVars, userVars, pure, log, install>>

SetUserDefaultTenantSet(p) ==
    LET c == memberCalls[p]
    IN  /\ c.op = "SetUserDefaultTenant" /\ c.pc = "set"
        /\ user_tenants' = SetDefault(user_tenants, c.user, c.tenant)
        /\ memberCalls' = [memberCalls EXCEPT ![p] = IdleCall]
        /\ UNCHANGED mw
        /\ UNCHANGED <<enrollVars, hosterVars, userVars, pure, log, install>>

\* ======================================================================
\* The hoster tenant
\* ======================================================================

HosterTenants == {t \in TenantIDs : is_hoster_tenant[t]}

\* GetDefaultTenant: the tenant created at setup carries is_default.
DefaultTenantID == 1

SetHosterTenantCall(p, tenantID) ==
    /\ hosterCalls[p] = IdleCall
    /\ hosterCalls' = [hosterCalls EXCEPT ![p] =
           [IdleCall EXCEPT !.op = "SetHosterTenant", !.pc = "clear", !.tenant = tenantID]]
    /\ UNCHANGED is_hoster_tenant
    /\ UNCHANGED <<enrollVars, authVars, memberCalls, userVars, pure, log, install>>

\* Tenant.Update().SetIsHosterTenant(false)
SetHosterTenantClear(p) ==
    LET c == hosterCalls[p]
    IN  /\ c.pc = "clear"
        /\ is_hoster_tenant' = [t \in TenantIDs |-> FALSE]
        /\ hosterCalls' = [hosterCalls EXCEPT ![p] = [c EXCEPT !.pc = "set"]]
        /\ UNCHANGED <<enrollVars, authVars, memberCalls, userVars, pure, log, install>>

\* Tenant.Update().Where(tenant.ID(tenantID)).SetIsHosterTenant(true)
SetHosterTenantSet(p) ==
    LET c == hosterCalls[p]
    IN  /\ c.pc = "set"
        /\ is_hoster_tenant' = [is_hoster_tenant EXCEPT ![c.tenant] = TRUE]
        /\ hosterCalls' = [hosterCalls EXCEPT ![p] = IdleCall]
        /\ UNCHANGED <<enrollVars, authVars, memberCalls, userVars, pure, log, install>>

EnsureHosterTenantExistsCall(p) ==
    /\ hosterCalls[p] = IdleCall
    /\ hosterCalls' = [hosterCalls EXCEPT ![p] =
           [IdleCall EXCEPT !.op = "EnsureHosterTenantExists", !.pc = "exist"]]
    /\ UNCHANGED is_hoster_tenant
    /\ UNCHANGED <<enrollVars, authVars, memberCalls, userVars, pure, log, install>>

\* Tenant.Query().Where(IsHosterTenant(true)).Exist()
EnsureHosterTenantExistsExist(p) ==
    LET c == hosterCalls[p]
    IN  /\ c.op = "EnsureHosterTenantExists" /\ c.pc = "exist"
        /\ hosterCalls' = [hosterCalls EXCEPT ![p] =
               IF HosterTenants # {} THEN IdleCall ELSE [c EXCEPT !.pc = "default"]]
        /\ UNCHANGED is_hoster_tenant
        /\ UNCHANGED <<enrollVars, authVars, memberCalls, userVars, pure, log, install>>

\* GetDefaultTenant(), then SetHosterTenant(defaultTenant.ID)
EnsureHosterTenantExistsDefault(p) ==
    LET c == hosterCalls[p]
    IN  /\ c.op = "EnsureHosterTenantExists" /\ c.pc = "default"
        /\ hosterCalls' = [hosterCalls EXCEPT ![p] =
               [c EXCEPT !.pc = "clear", !.tenant = DefaultTenantID]]
        /\ UNCHANGED is_hoster_tenant
        /\ UNCHANGED <<enrollVars, authVars, memberCalls, userVars, pure, log, install>>

\* ======================================================================
\* Access middlewares
\* ======================================================================

Digits == {"0", "1", "2", "3", "4", "5", "6", "7", "8", "9"}

DigitValue(c) ==
    CASE c = "0" -> 0 [] c = "1" -> 1 [] c = "2" -> 2 [] c = "3" -> 3 [] c = "4" -> 4
      [] c = "5" -> 5 [] c = "6" -> 6 [] c = "7" -> 7 [] c = "8" -> 8 [] c = "9" -> 9

RECURSIVE DigitsValue(_)
DigitsValue(s) ==
    IF s = <<>> THEN 0
    ELSE DigitsValue(SubSeq(s, 1, Len(s) - 1)) * 10 + DigitValue(s[Len(s)])

\* strconv.Atoi: an optional sign, then one or more decimal digits.
Atoi(s) ==
    LET signed == Len(s) > 0 /\ s[1] \in {"+", "-"}
        digits == IF signed THEN Tail(s) ELSE s
    IN  IF Len(digits) = 0 \/ \E i \in 1..Len(digits) : digits[i] \notin Digits
        THEN [err |-> TRUE, value |-> 0]
        ELSE [err |-> FALSE,
              value |-> IF signed /\ s[1] = "-" THEN 0 - DigitsValue(digits)
                        ELSE DigitsValue(digits)]

\* The values of the session's "uid" and of the URL's "tenant" parameter.
SessionUIDs == Usernames \cup {""}
NoTenantSentinel == <<"-", "1">>
TenantParams ==
    {<<DigitChar(t)>> : t \in TenantIDs}
        \cup {<<>>, NoTenantSentinel, <<"+", "1">>, <<"a">>, <<"9">>}

NoContext == [tenant_id |-> {}, user_id |-> {}]

\* What a middleware did with a request: rendered the login page, returned an HTTP
\* error, or called next(c) with the context it had set.
Outcome(gate, tenantIDStr, outcome, status, reason, ctx) ==
    [gate |-> gate, tenant |-> tenantIDStr, outcome |-> outcome,
     status |-> status, reason |-> reason, ctx |-> ctx]

NoOutcome == Outcome("none", <<>>, "none", 0, "", NoContext)

GateLogin(gate, t) == Outcome(gate, t, "login", 0, "", NoContext)
GateError(gate, t, status, reason) == Outcome(gate, t, "error", status, reason, NoContext)
GateNext(gate, t, ctx) == Outcome(gate, t, "next", 0, "", ctx)

\* Mutant of TenantAccessOutcome: the sentinel is looked at before the session.
TenantAccessOutcome_SentinelFirst(username, tenantIDStr) ==
    LET gate == "TenantAccess"
        parsed == Atoi(tenantIDStr)
        access == UserHasAccessToTenant(username, parsed.value)
    IN  IF tenantIDStr = <<>> \/ tenantIDStr = NoTenantSentinel
        THEN GateNext(gate, tenantIDStr, NoContext)
        ELSE IF username = "" THEN GateLogin(gate, tenantIDStr)
        ELSE IF parsed.err
             THEN GateError(gate, tenantIDStr, StatusBadRequest,
                            "tenants.invalid_tenant_id")
        ELSE IF access.err
             THEN GateError(gate, tenantIDStr, StatusInternalServerError, "err")
        ELSE IF ~access.hasAccess
             THEN GateError(gate, tenantIDStr, StatusForbidden, "tenants.no_access")
        ELSE GateNext(gate, tenantIDStr,
                      [tenant_id |-> {parsed.value}, user_id |-> {username}])

TenantAccessOutcome(username, tenantIDStr) ==
    LET gate == "TenantAccess"
        parsed == Atoi(tenantIDStr)
        access == UserHasAccessToTenant(username, parsed.value)
    IN  IF username = "" THEN GateLogin(gate, tenantIDStr)
        ELSE IF tenantIDStr = <<>> \/ tenantIDStr = NoTenantSentinel
             THEN GateNext(gate, tenantIDStr, NoContext)
        ELSE IF parsed.err
             THEN GateError(gate, tenantIDStr, StatusBadRequest,
                            "tenants.invalid_tenant_id")
        ELSE IF access.err
             THEN GateError(gate, tenantIDStr, StatusInternalServerError, "err")
        ELSE IF ~access.hasAccess
             THEN GateError(gate, tenantIDStr, StatusForbidden, "tenants.no_access")
        ELSE GateNext(gate, tenantIDStr,
                      [tenant_id |-> {parsed.value}, user_id |-> {username}])

\* Mutant of TenantAdminOutcome: the "-1" sentinel continues, as in TenantAccess.
TenantAdminOutcome_Sentinel(username, tenantIDStr) ==
    LET gate == "TenantAdmin"
        parsed == Atoi(tenantIDStr)
        admin == IsUserTenantAdmin(username, parsed.value)
    IN  IF username = "" THEN GateLogin(gate, tenantIDStr)
        ELSE IF tenantIDStr = NoTenantSentinel
             THEN GateNext(gate, tenantIDStr, NoContext)
        ELSE IF tenantIDStr = <<>>
             THEN GateError(gate, tenantIDStr, StatusBadRequest,
                            "tenants.tenant_required")
        ELSE IF parsed.err
             THEN GateError(gate, tenantIDStr, StatusBadRequest,
                            "tenants.invalid_tenant_id")
        ELSE IF admin.err
             THEN GateError(gate, tenantIDStr, StatusInternalServerError, "err")
        ELSE IF ~admin.isAdmin
             THEN GateError(gate, tenantIDStr, StatusForbidden,
                            "tenants.admin_required")
        ELSE GateNext(gate, tenantIDStr, NoContext)

TenantAdminOutcome(username, tenantIDStr) ==
    LET gate == "TenantAdmin"
        parsed == Atoi(tenantIDStr)
        admin == IsUserTenantAdmin(username, parsed.value)
    IN  IF username = "" THEN GateLogin(gate, tenantIDStr)
        ELSE IF tenantIDStr = <<>>
             THEN GateError(gate, tenantIDStr, StatusBadRequest,
                            "tenants.tenant_required")
        ELSE IF parsed.err
             THEN GateError(gate, tenantIDStr, StatusBadRequest,
                            "tenants.invalid_tenant_id")
        ELSE IF admin.err
             THEN GateError(gate, tenantIDStr, StatusInternalServerError, "err")
        ELSE IF ~admin.isAdmin
             THEN GateError(gate, tenantIDStr, StatusForbidden,
                            "tenants.admin_required")
        ELSE GateNext(gate, tenantIDStr, NoContext)

\* Mutant of TenantOperatorOutcome: only the admin role is accepted.
TenantOperatorOutcome_AdminOnly(username, tenantIDStr) ==
    LET gate == "TenantOperator"
        parsed == Atoi(tenantIDStr)
        r == GetUserRoleInTenant(username, parsed.value)
    IN  IF username = "" THEN GateLogin(gate, tenantIDStr)
        ELSE IF tenantIDStr = <<>>
             THEN GateError(gate, tenantIDStr, StatusBadRequest,
                            "tenants.tenant_required")
        ELSE IF parsed.err
             THEN GateError(gate, tenantIDStr, StatusBadRequest,
                            "tenants.invalid_tenant_id")
        ELSE IF r.err
             THEN GateError(gate, tenantIDStr, StatusInternalServerError, "err")
        ELSE IF r.role # UserTenantRoleAdmin
             THEN GateError(gate, tenantIDStr, StatusForbidden,
                            "tenants.operator_required")
        ELSE GateNext(gate, tenantIDStr, NoContext)

TenantOperatorOutcome(username, tenantIDStr) ==
    LET gate == "TenantOperator"
        parsed == Atoi(tenantIDStr)
        r == GetUserRoleInTenant(username, parsed.value)
    IN  IF username = "" THEN GateLogin(gate, tenantIDStr)
        ELSE IF tenantIDStr = <<>>
             THEN GateError(gate, tenantIDStr, StatusBadRequest,
                            "tenants.tenant_required")
        ELSE IF parsed.err
             THEN GateError(gate, tenantIDStr, StatusBadRequest,
                            "tenants.invalid_tenant_id")
        ELSE IF r.err
             THEN GateError(gate, tenantIDStr, StatusInternalServerError, "err")
        ELSE IF r.role # UserTenantRoleAdmin /\ r.role # UserTenantRoleOperator
             THEN GateError(gate, tenantIDStr, StatusForbidden,
                            "tenants.operator_required")
        ELSE GateNext(gate, tenantIDStr, NoContext)

TenantAccessMiddleware(username, tenantIDStr) ==
    /\ mw' = TenantAccessOutcome(username, tenantIDStr)
    /\ UNCHANGED <<user_tenants, memberCalls>>
    /\ UNCHANGED <<enrollVars, hosterVars, userVars, pure, log, install>>

TenantAdminMiddleware(username, tenantIDStr) ==
    /\ mw' = TenantAdminOutcome(username, tenantIDStr)
    /\ UNCHANGED <<user_tenants, memberCalls>>
    /\ UNCHANGED <<enrollVars, hosterVars, userVars, pure, log, install>>

TenantOperatorMiddleware(username, tenantIDStr) ==
    /\ mw' = TenantOperatorOutcome(username, tenantIDStr)
    /\ UNCHANGED <<user_tenants, memberCalls>>
    /\ UNCHANGED <<enrollVars, hosterVars, userVars, pure, log, install>>

\* ======================================================================
\* The hoster admin
\* ======================================================================

\* Tenant.Query().Where(IsHosterTenant(true)).Only(): an error unless exactly one
\* tenant carries the flag.
GetHosterTenant ==
    IF Cardinality(HosterTenants) = 1
    THEN [err |-> FALSE, id |-> CHOOSE t \in HosterTenants : TRUE]
    ELSE [err |-> TRUE, id |-> 0]

\* Mutant of SuperAdminOutcome: the admin role is looked up in the URL's tenant.
SuperAdminOutcome_URLTenant(username, tenantIDStr) ==
    LET gate == "SuperAdmin"
        hosterTenant == GetHosterTenant
        isHosterAdmin == IsUserTenantAdmin(username, Atoi(tenantIDStr).value)
    IN  IF username = "" THEN GateLogin(gate, tenantIDStr)
        ELSE IF hosterTenant.err
             THEN GateError(gate, tenantIDStr, StatusInternalServerError, "err")
        ELSE IF isHosterAdmin.err
             THEN GateError(gate, tenantIDStr, StatusInternalServerError, "err")
        ELSE IF ~isHosterAdmin.isAdmin
             THEN GateError(gate, tenantIDStr, StatusForbidden,
                            "tenants.hoster_admin_required")
        ELSE GateNext(gate, tenantIDStr, NoContext)

\* tenantIDStr is the URL's "tenant" parameter of the request; the middleware does
\* not read it.
SuperAdminOutcome(username, tenantIDStr) ==
    LET gate == "SuperAdmin"
        hosterTenant == GetHosterTenant
        isHosterAdmin == IsUserTenantAdmin(username, hosterTenant.id)
    IN  IF username = "" THEN GateLogin(gate, tenantIDStr)
        ELSE IF hosterTenant.err
             THEN GateError(gate, tenantIDStr, StatusInternalServerError, "err")
        ELSE IF isHosterAdmin.err
             THEN GateError(gate, tenantIDStr, StatusInternalServerError, "err")
        ELSE IF ~isHosterAdmin.isAdmin
             THEN GateError(gate, tenantIDStr, StatusForbidden,
                            "tenants.hoster_admin_required")
        ELSE GateNext(gate, tenantIDStr, NoContext)

SuperAdminMiddleware(username, tenantIDStr) ==
    /\ mw' = SuperAdminOutcome(username, tenantIDStr)
    /\ UNCHANGED <<user_tenants, memberCalls>>
    /\ UNCHANGED <<enrollVars, hosterVars, userVars, pure, log, install>>

\* The handler chain has answered the request.
Respond ==
    /\ mw # NoOutcome
    /\ mw' = NoOutcome
    /\ UNCHANGED <<user_tenants, memberCalls>>
    /\ UNCHANGED <<enrollVars, hosterVars, userVars, pure, log, install>>

\* SetHosterTenant run to completion: clear all, then set one.
SetHosterTenant(tenantID) ==
    /\ is_hoster_tenant' = [t \in TenantIDs |-> t = tenantID]
    /\ UNCHANGED hosterCalls
    /\ UNCHANGED <<enrollVars, authVars, memberCalls, userVars, pure, log, install>>

\* IsSuperAdmin: (bool, error), and the path that produced it.
SuperResult(userID, err, result, path) ==
    [user |-> userID, err |-> err, result |-> result, path |-> path]

NoSuperResult == SuperResult("", FALSE, FALSE, "none")

\* IsSuperAdmin over a users table: users maps each stored user to its
\* is_super_admin flag.
IsSuperAdminIn(users, userID) ==
    LET hosterTenant == GetHosterTenant
        role == GetUserRoleInTenant(userID, hosterTenant.id)
    IN  IF hosterTenant.err
        THEN \* User.Query().Where(user.ID(userID)).Only()
             IF userID \notin DOMAIN users
             THEN SuperResult(userID, TRUE, FALSE, "legacy")
             ELSE SuperResult(userID, FALSE, users[userID], "legacy")
        ELSE IF role.err THEN SuperResult(userID, FALSE, FALSE, "derived")
        ELSE SuperResult(userID, FALSE, role.role = UserTenantRoleAdmin, "derived")

IsSuperAdminResult(userID) == IsSuperAdminIn(is_super_admin, userID)

IsSuperAdmin(userID) ==
    /\ superResult' = IsSuperAdminResult(userID)
    /\ UNCHANGED is_super_admin
    /\ UNCHANGED <<enrollVars, authVars, hosterVars, memberCalls, pure, install>>
    /\ log' = {}

\* User.Update().Where(user.ID(userID)).SetIsSuperAdmin(isSuperAdmin): no row, no
\* change.
SetSuperAdmin(userID, isSuperAdmin) ==
    /\ is_super_admin' = [u \in DOMAIN is_super_admin |->
                             IF u = userID THEN isSuperAdmin ELSE is_super_admin[u]]
    /\ UNCHANGED superResult
    /\ UNCHANGED <<enrollVars, authVars, hosterVars, memberCalls, pure, install>>
    /\ log' = {}

\* The make-superadmin command.
makeSuperAdmin(username) == SetSuperAdmin(username, TRUE)

\* ======================================================================
\* Calls of the functions without side effects
\* ======================================================================

Call(fn, args, returns) == [fn |-> fn, args |-> args, returns |-> returns]
NoCall == Call("none", <<>>, <<>>)

\* One call of deriveExternalNATSURL with the arguments at hand.
deriveExternalNATSURLCall ==
    /\ pure.fn = "deriveExternalNATSURL"
    /\ pure.returns = <<>>
    /\ pure' = [pure EXCEPT !.returns =
                   <<deriveExternalNATSURL(pure.args[1], pure.args[2])>>]
    /\ UNCHANGED <<enrollVars, authVars, hosterVars, memberCalls, userVars, log, install>>

\* One more call of generatePlatformConfigINI with the arguments at hand.
generatePlatformConfigINICall ==
    /\ pure.fn = "generatePlatformConfigINI"
    /\ Len(pure.returns) < MaxCalls
    /\ pure' = [pure EXCEPT !.returns =
                   Append(@, generatePlatformConfigINI(pure.args[1], pure.args[2],
                                                       pure.args[3]))]
    /\ UNCHANGED <<enrollVars, authVars, hosterVars, memberCalls, userVars, log, install>>

\* ======================================================================
\* Specifications
\* ======================================================================

InitEnrollIdle ==
    /\ tokens = {}
    /\ nextTokenID = 1
    /\ now = 0
    /\ caCertReadable = TRUE
    /\ resp = NoResponse
    /\ delivered = [id \in TokenIDs |-> 0]

\* Nothing logged, no install command running.
InitHost ==
    /\ log = {}
    /\ install = NoInstall

InitRest ==
    /\ user_tenants = EmptyUserTenants
    /\ mw = NoOutcome
    /\ is_hoster_tenant = [t \in TenantIDs |-> FALSE]
    /\ hosterCalls = [p \in Procs |-> IdleCall]
    /\ memberCalls = [p \in Procs |-> IdleCall]
    /\ is_super_admin = [u \in Usernames |-> FALSE]
    /\ superResult = NoSuperResult
    /\ pure = NoCall
    /\ InitHost

\* The token lifecycle through the handlers, from an empty table.
Init == InitEnrollIdle /\ InitRest

Next ==
    \/ \E tenantID \in TenantIDs, maxUses \in MaxUsesInputs, expiresAt \in ExpiryInputs :
           CreateEnrollmentToken(tenantID, {}, maxUses, expiresAt)
    \/ \E tokenID \in TokenIDs : DeleteEnrollmentToken(tokenID)
    \/ \E tokenID \in TokenIDs, active \in BOOLEAN : ToggleEnrollmentToken(tokenID, active)
    \/ \E tokenValue \in TokenParams, platform \in PlatformParams :
           PublicDownloadConfig(tokenValue, platform)
    \/ Tick
    \/ \E readable \in BOOLEAN : SetCACertReadable(readable)

Spec == Init /\ [][Next]_vars

\* The redemption decision on a stored row of any content: current_uses of a row is
\* written by the enrollment path outside these handlers, so the rows are drawn from
\* every combination of the fields the decision reads.
StoredTokens ==
    {[id |-> 1, tenant_id |-> 1, site_id |-> s, token |-> NewTokenValue(1),
      active |-> a, max_uses |-> m, current_uses |-> c, expires_at |-> e] :
        s \in SiteInputs, a \in BOOLEAN, m \in MaxUsesInputs, c \in 0..MaxCurrentUses,
        e \in ExpiryInputs}

InitRedeem ==
    /\ \E t \in StoredTokens : tokens = {t}
    /\ nextTokenID = 2
    /\ now = 0
    /\ caCertReadable = TRUE
    /\ resp = NoResponse
    /\ delivered = [id \in TokenIDs |-> 0]
    /\ InitRest

NextRedeem ==
    \/ \E tokenValue \in TokenParams, platform \in PlatformParams :
           PublicDownloadConfig(tokenValue, platform)
    \/ \E tokenID \in TokenIDs : DownloadConfigZIP(tokenID)
    \/ \E tokenID \in TokenIDs, platform \in PlatformParams :
           GetInstallCommand(tokenID, platform)
    \/ Tick
    \/ \E readable \in BOOLEAN : SetCACertReadable(readable)

SpecRedeem == InitRedeem /\ [][NextRedeem]_vars

\* The gates over the memberships, every membership function run to completion.  The
\* gates read the user, the tenant and the role of a row; the is_default flag of the
\* rows is exercised under SpecMembers.
InitAuth == InitEnrollIdle /\ InitRest

NextAuth ==
    \/ \E userID \in Usernames, tenantID \in TenantIDs, role \in Roles :
           AssignUserToTenant(userID, tenantID, role, FALSE)
    \/ \E userID \in Usernames, tenantID \in TenantIDs : RemoveUserFromTenant(userID, tenantID)
    \/ \E userID \in Usernames, tenantID \in TenantIDs, role \in Roles :
           UpdateUserTenantRole(userID, tenantID, role)
    \/ \E username \in SessionUIDs, tenantIDStr \in TenantParams :
           TenantAccessMiddleware(username, tenantIDStr)
    \/ \E username \in SessionUIDs, tenantIDStr \in TenantParams :
           TenantAdminMiddleware(username, tenantIDStr)
    \/ \E username \in SessionUIDs, tenantIDStr \in TenantParams :
           TenantOperatorMiddleware(username, tenantIDStr)

SpecAuth == InitAuth /\ [][NextAuth]_vars

\* The membership functions under statement-level interleaving of the workers.
NextMembers ==
    \/ \E p \in Procs, userID \in MemberUsers, tenantID \in TenantIDs,
          role \in MemberRoles, isDefault \in BOOLEAN :
           AssignUserToTenantCall(p, userID, tenantID, role, isDefault)
    \/ \E p \in Procs : AssignUserToTenantExist(p)
    \/ \E p \in Procs : AssignUserToTenantClear(p)
    \/ \E p \in Procs : AssignUserToTenantCreate(p)
    \/ \E p \in Procs, userID \in MemberUsers, tenantID \in TenantIDs :
           SetUserDefaultTenantCall(p, userID, tenantID)
    \/ \E p \in Procs : SetUserDefaultTenantClear(p)
    \/ \E p \in Procs : SetUserDefaultTenantSet(p)
    \/ \E userID \in MemberUsers, tenantID \in TenantIDs : RemoveUserFromTenant(userID, tenantID)
    \/ \E userID \in MemberUsers, tenantID \in TenantIDs, role \in MemberRoles :
           UpdateUserTenantRole(userID, tenantID, role)

SpecMembers == InitAuth /\ [][NextMembers]_vars

\* SetHosterTenant and EnsureHosterTenantExists under statement-level interleaving.
NextHoster ==
    \/ \E p \in Procs, tenantID \in TenantIDs : SetHosterTenantCall(p, tenantID)
    \/ \E p \in Procs : SetHosterTenantClear(p)
    \/ \E p \in Procs : SetHosterTenantSet(p)
    \/ \E p \in Procs : EnsureHosterTenantExistsCall(p)
    \/ \E p \in Procs : EnsureHosterTenantExistsExist(p)
    \/ \E p \in Procs : EnsureHosterTenantExistsDefault(p)

SpecHoster == InitAuth /\ [][NextHoster]_vars

\* The four gates, one request at a time, over the memberships and the hoster flags.
\* The flags start in any combination, two flagged tenants included: interleaved
\* SetHosterTenant calls leave such a store (SpecHoster).
InitGates ==
    /\ InitEnrollIdle
    /\ user_tenants = EmptyUserTenants
    /\ mw = NoOutcome
    /\ is_hoster_tenant \in [TenantIDs -> BOOLEAN]
    /\ hosterCalls = [p \in Procs |-> IdleCall]
    /\ memberCalls = [p \in Procs |-> IdleCall]
    /\ is_super_admin = [u \in Usernames |-> FALSE]
    /\ superResult = NoSuperResult
    /\ pure = NoCall
    /\ InitHost

NextGates ==
    \/ /\ mw = NoOutcome
       /\ \E userID \in Usernames, tenantID \in TenantIDs, role \in Roles :
              AssignUserToTenant(userID, tenantID, role, FALSE)
    \/ /\ mw = NoOutcome
       /\ \E userID \in Usernames, tenantID \in TenantIDs :
              RemoveUserFromTenant(userID, tenantID)
    \/ /\ mw = NoOutcome
       /\ \E tenantID \in TenantIDs : SetHosterTenant(tenantID)
    \/ /\ mw = NoOutcome
       /\ \E username \in SessionUIDs, tenantIDStr \in TenantParams :
              TenantAccessMiddleware(username, tenantIDStr)
    \/ /\ mw = NoOutcome
       /\ \E username \in SessionUIDs, tenantIDStr \in TenantParams :
              TenantAdminMiddleware(username, tenantIDStr)
    \/ /\ mw = NoOutcome
       /\ \E username \in SessionUIDs, tenantIDStr \in TenantParams :
              TenantOperatorMiddleware(username, tenantIDStr)
    \/ /\ mw = NoOutcome
       /\ \E username \in SessionUIDs, tenantIDStr \in TenantParams :
              SuperAdminMiddleware(username, tenantIDStr)
    \/ Respond

SpecGates == InitGates /\ [][NextGates]_vars

\* IsSuperAdmin over the memberships, the hoster flags written statement by
\* statement, and the legacy flag.
SuperRoles == {UserTenantRoleAdmin, UserTenantRoleUser}

NextSuper ==
    \/ \E userID \in Usernames, tenantID \in TenantIDs, role \in SuperRoles :
           AssignUserToTenant(userID, tenantID, role, FALSE)
    \/ \E p \in Procs, tenantID \in TenantIDs : SetHosterTenantCall(p, tenantID)
    \/ \E p \in Procs : SetHosterTenantClear(p)
    \/ \E p \in Procs : SetHosterTenantSet(p)
    \/ \E userID \in SessionUIDs : IsSuperAdmin(userID)
    \/ \E userID \in Usernames : SetSuperAdmin(userID, FALSE)
    \/ \E username \in Usernames : makeSuperAdmin(username)

SpecSuper == InitAuth /\ [][NextSuper]_vars

\* deriveExternalNATSURL on every string of up to MaxURLLen tokens, with and without
\* a domain.
URLAlphabet == {"tls", "4433", ":", "/"}
URLStrings == UNION {[1..n -> URLAlphabet] : n \in 0..MaxURLLen}
DomainInputs == {<<>>, Domain}

InitNATS ==
    /\ InitEnrollIdle
    /\ user_tenants = EmptyUserTenants
    /\ mw = NoOutcome
    /\ is_hoster_tenant = [t \in TenantIDs |-> FALSE]
    /\ hosterCalls = [p \in Procs |-> IdleCall]
    /\ memberCalls = [p \in Procs |-> IdleCall]
    /\ is_super_admin = [u \in Usernames |-> FALSE]
    /\ superResult = NoSuperResult
    /\ InitHost
    /\ \E internalNATS \in URLStrings, domain \in DomainInputs :
           pure = Call("deriveExternalNATSURL", <<internalNATS, domain>>, <<>>)

NextNATS == deriveExternalNATSURLCall

SpecNATS == InitNATS /\ [][NextNATS]_vars

\* generatePlatformConfigINI, called up to MaxCalls times on the same arguments.
BrokerInputs == {NATSServers, deriveExternalNATSURL(NATSServers, Domain), <<>>}
TokenInputs == UUIDs \cup {""}

InitINI ==
    /\ InitEnrollIdle
    /\ user_tenants = EmptyUserTenants
    /\ mw = NoOutcome
    /\ is_hoster_tenant = [t \in TenantIDs |-> FALSE]
    /\ hosterCalls = [p \in Procs |-> IdleCall]
    /\ memberCalls = [p \in Procs |-> IdleCall]
    /\ is_super_admin = [u \in Usernames |-> FALSE]
    /\ superResult = NoSuperResult
    /\ InitHost
    /\ \E platform \in PlatformParams, natsServers \in BrokerInputs, token \in TokenInputs :
           pure = Call("generatePlatformConfigINI", <<platform, natsServers, token>>, <<>>)

NextINI == generatePlatformConfigINICall

SpecINI == InitINI /\ [][NextINI]_vars

\* Toggling, deleting and redeeming a stored token that starts active, while time
\* passes and the CA certificate file comes and goes.
InitStore ==
    /\ InitRedeem
    /\ \A t \in tokens : t.active

NextStore ==
    \/ \E tokenID \in TokenIDs : DeleteEnrollmentToken(tokenID)
    \/ \E tokenID \in TokenIDs, active \in BOOLEAN : ToggleEnrollmentToken(tokenID, active)
    \/ \E tokenValue \in TokenParams, platform \in PlatformParams :
           PublicDownloadConfig(tokenValue, platform)
    \/ Tick
    \/ \E readable \in BOOLEAN : SetCACertReadable(readable)

SpecStore == InitStore /\ [][NextStore]_vars

\* The token management of the tenants behind the tenant-admin gate: one stored
\* token of tenant 1 with any site, flag and uses; alice is admin of tenant 1 and bob
\* of tenant 2. A handler runs for a request the gate let through.
AdminTenants ==
    CreateRow(CreateRow(EmptyUserTenants, "alice", 1, UserTenantRoleAdmin, FALSE),
              "bob", 2, UserTenantRoleAdmin, FALSE)

InitAdmin ==
    /\ \E t \in StoredTokens : tokens = {t} /\ t.max_uses = 0 /\ t.expires_at = {}
    /\ nextTokenID = 2
    /\ now = 0
    /\ caCertReadable = TRUE
    /\ resp = NoResponse
    /\ delivered = [id \in TokenIDs |-> 0]
    /\ user_tenants = AdminTenants
    /\ mw = NoOutcome
    /\ is_hoster_tenant = [t \in TenantIDs |-> FALSE]
    /\ hosterCalls = [p \in Procs |-> IdleCall]
    /\ memberCalls = [p \in Procs |-> IdleCall]
    /\ is_super_admin = [u \in Usernames |-> FALSE]
    /\ superResult = NoSuperResult
    /\ pure = NoCall
    /\ InitHost

\* The request passed the gate; its URL names the tenant.
Admitted == mw.outcome = "next" /\ ~Atoi(mw.tenant).err
RequestTenant == Atoi(mw.tenant).value

ScriptPlatforms == {"linux", "windows", ""}

NextAdmin ==
    \/ /\ mw = NoOutcome
       /\ \E username \in Usernames, tenantID \in TenantIDs :
              TenantAdminMiddleware(username, <<DigitChar(tenantID)>>)
    \/ Respond
    \/ /\ Admitted
       /\ \E siteID \in SiteInputs : CreateEnrollmentToken(RequestTenant, siteID, 0, {})
    \/ Admitted /\ ListEnrollmentTokens(RequestTenant)
    \/ Admitted /\ \E tokenID \in TokenIDs : DeleteEnrollmentToken(tokenID)
    \/ /\ Admitted
       /\ \E tokenID \in TokenIDs, active \in BOOLEAN : ToggleEnrollmentToken(tokenID, active)
    \/ Admitted /\ \E tokenID \in TokenIDs : DownloadConfigZIP(tokenID)
    \/ /\ Admitted
       /\ \E tokenID \in TokenIDs, platform \in ScriptPlatforms, written \in BOOLEAN :
              DownloadInstallerScript(tokenID, platform, written)
    \/ /\ Admitted
       /\ \E tokenID \in TokenIDs, platform \in ScriptPlatforms :
              GetInstallCommand(tokenID, platform)
    \/ \E readable \in BOOLEAN : SetCACertReadable(readable)

SpecAdmin == InitAdmin /\ [][NextAdmin]_vars

\* The token-management handlers alone, called in any order on the store; new
\* tokens are created in tenant 1 without a site.
NextManage ==
    \/ CreateEnrollmentToken(1, {}, 0, {})
    \/ \E tenantID \in TenantIDs : ListEnrollmentTokens(tenantID)
    \/ \E tokenID \in TokenIDs : DeleteEnrollmentToken(tokenID)
    \/ \E tokenID \in TokenIDs, active \in BOOLEAN : ToggleEnrollmentToken(tokenID, active)
    \/ \E tokenID \in TokenIDs : DownloadConfigZIP(tokenID)
    \/ \E tokenID \in TokenIDs, platform \in ScriptPlatforms, written \in BOOLEAN :
           DownloadInstallerScript(tokenID, platform, written)
    \/ \E tokenID \in TokenIDs, platform \in ScriptPlatforms :
           GetInstallCommand(tokenID, platform)
    \/ \E readable \in BOOLEAN : SetCACertReadable(readable)

SpecManage == InitAdmin /\ [][NextManage]_vars

\* Concurrent AssignUserToTenant calls, statement by statement, and removals.
NextAssign ==
    \/ \E p \in Procs, userID \in MemberUsers, tenantID \in TenantIDs, isDefault \in BOOLEAN :
           AssignUserToTenantCall(p, userID, tenantID, UserTenantRoleUser, isDefault)
    \/ \E p \in Procs : AssignUserToTenantExist(p)
    \/ \E p \in Procs : AssignUserToTenantClear(p)
    \/ \E p \in Procs : AssignUserToTenantCreate(p)
    \/ \E userID \in MemberUsers, tenantID \in TenantIDs : RemoveUserFromTenant(userID, tenantID)

SpecAssign == InitAuth /\ [][NextAssign]_vars

\* The hoster-admin gate next to the resolver, for any content of the hoster flags,
\* the memberships and the legacy flags.
NextResolver ==
    \/ /\ mw = NoOutcome
       /\ \E userID \in Usernames, tenantID \in TenantIDs, role \in SuperRoles :
              AssignUserToTenant(userID, tenantID, role, FALSE)
    \/ /\ mw = NoOutcome
       /\ \E userID \in Usernames : SetSuperAdmin(userID, FALSE)
    \/ /\ mw = NoOutcome
       /\ \E username \in Usernames : makeSuperAdmin(username)
    \/ /\ mw = NoOutcome
       /\ \E username \in SessionUIDs, tenantIDStr \in {<<>>, <<"1">>} :
              SuperAdminMiddleware(username, tenantIDStr)
    \/ \E userID \in SessionUIDs : IsSuperAdmin(userID)
    \/ Respond

SpecResolver == InitGates /\ [][NextResolver]_vars

\* An agent host runs the install command of a platform; each step succeeds or fails.
NextInstall ==
    \/ \E platform \in InstallPlatforms, preference \in {"none", "Continue", "Stop"} :
           RunInstallCommand(platform, preference)
    \/ \E ok \in BOOLEAN : RunStep(ok)

SpecInstall == InitAuth /\ [][NextInstall]_vars

\* ======================================================================
\* Properties of the redemption endpoint
\* ======================================================================

\* expires_at lies in the past of the clock
InPast(t) == \E e \in t.expires_at : e < now

\* max_uses > 0 and current_uses >= max_uses
Exhausted(t) == t.max_uses > 0 /\ t.current_uses >= t.max_uses

\* C1: a token with max_uses = N > 0 delivers a bundle on each of N sequential
\* redemptions and on none after them: its current_uses equals the number of bundles
\* delivered for it (a redemption at current_uses = N-1 leaves current_uses = N) and
\* never more than N bundles are delivered.
C1_SequentialRedemptions ==
    \A t \in tokens :
        t.max_uses > 0 =>
            /\ t.current_uses = delivered[t.id]
            /\ delivered[t.id] <= t.max_uses

\* C2: every redemption answered 200 raises current_uses of the redeemed token by
\* exactly one, and no step lowers current_uses of any token.
C2_RedemptionIncrementsUses ==
    [][/\ \A tokenValue \in TokenParams, platform \in PlatformParams :
              (PublicDownloadConfig(tokenValue, platform) /\ resp'.status = StatusOK)
                  => \A t \in GetEnrollmentTokenByValue(tokenValue) :
                         \E u \in tokens' :
                             u.id = t.id /\ u.current_uses = t.current_uses + 1
       /\ \A t \in tokens : \A u \in tokens' :
              u.id = t.id => u.current_uses >= t.current_uses]_vars

\* The redeemable predicate as the data model states it.
RedeemableStated(t) ==
    /\ t.active
    /\ (t.expires_at = {} \/ \E e \in t.expires_at : e > now)
    /\ (t.max_uses = 0 \/ t.current_uses < t.max_uses)

\* The redeemable predicate the handler decides: a token expiring at this very
\* instant is still served, and only a positive max_uses limits the uses.
RedeemableDecided(t) ==
    /\ t.active
    /\ (t.expires_at = {} \/ \E e \in t.expires_at : e >= now)
    /\ (t.max_uses <= 0 \/ t.current_uses < t.max_uses)

\* C3 as stated: with the CA certificate readable, a stored token is served a bundle
\* iff active and (expires_at nil or expires_at > now) and (max_uses = 0 or
\* current_uses < max_uses).
C3_RedeemableIffStated ==
    [][\A tokenValue \in TokenParams, platform \in PlatformParams :
           (PublicDownloadConfig(tokenValue, platform) /\ caCertReadable)
               => \A t \in GetEnrollmentTokenByValue(tokenValue) :
                      (resp'.status = StatusOK) <=> RedeemableStated(t)]_vars

\* C3 amended: with the CA certificate readable, a stored token is served a bundle
\* iff active and (expires_at nil or expires_at >= now) and (max_uses <= 0 or
\* current_uses < max_uses).
C3_RedeemableIffDecided ==
    [][\A tokenValue \in TokenParams, platform \in PlatformParams :
           (/\ resp'.op = "PublicDownloadConfig"
            /\ caCertReadable
            /\ PublicDownloadConfig(tokenValue, platform))
               => \A t \in GetEnrollmentTokenByValue(tokenValue) :
                      (resp'.status = StatusOK) <=> RedeemableDecided(t)]_vars

\* A bundle was served for a stored token that expires at the present instant.
C3_Witness ==
    /\ resp.op = "PublicDownloadConfig"
    /\ resp.status = StatusOK
    /\ caCertReadable
    /\ \E t \in tokens : t.token = resp.token /\ t.expires_at = {now} /\ t.max_uses > 0

\* The status and reason the classification order assigns to a request.
ClassifiedOutcome(tokenValue) ==
    LET found == GetEnrollmentTokenByValue(tokenValue)
    IN  IF tokenValue = "" THEN <<StatusBadRequest, "missing token">>
        ELSE IF found = {} THEN <<StatusNotFound, "invalid token">>
        ELSE IF \E t \in found : ~t.active THEN <<StatusForbidden, "token is inactive">>
        ELSE IF \E t \in found : InPast(t) THEN <<StatusForbidden, "token has expired">>
        ELSE IF \E t \in found : Exhausted(t)
             THEN <<StatusForbidden, "token usage limit reached">>
        ELSE IF ~caCertReadable
             THEN <<StatusInternalServerError, "could not read CA certificate">>
        ELSE <<StatusOK, "application/zip">>

DenialReasons ==
    {"missing token", "invalid token", "token is inactive", "token has expired",
     "token usage limit reached", "could not read CA certificate"}

\* C6: every request gets exactly the outcome of the first matching case in the order
\* missing value 400, unknown value 404, inactive 403, expired 403, usage limit
\* reached 403, CA certificate unreadable 500; the six reasons are pairwise distinct.
C6_ClassificationOrder ==
    [][\A tokenValue \in TokenParams, platform \in PlatformParams :
           (/\ resp'.op = "PublicDownloadConfig"
            /\ PublicDownloadConfig(tokenValue, platform))
               => /\ <<resp'.status, resp'.body>> = ClassifiedOutcome(tokenValue)
                  /\ Cardinality(DenialReasons) = 6
                  /\ (resp'.status # StatusOK => resp'.body \in DenialReasons)]_vars

\* A request for an active, unexpired token with a date was denied for its usage limit.
C6_Witness ==
    /\ resp.op = "PublicDownloadConfig"
    /\ resp.status = StatusForbidden
    /\ resp.body = "token usage limit reached"
    /\ \E t \in tokens : t.token = resp.token /\ t.active /\ t.expires_at # {} /\ Exhausted(t)

\* C7 as stated: a stored token with expires_at in the past is always answered
\* "expired", whatever its active flag and its uses.
C7_ExpiredAlways ==
    [][\A tokenValue \in TokenParams, platform \in PlatformParams :
           PublicDownloadConfig(tokenValue, platform)
               => \A t \in GetEnrollmentTokenByValue(tokenValue) :
                      InPast(t) => resp'.body = "token has expired"]_vars

\* C7 amended: a stored ACTIVE token with expires_at in the past is always answered
\* "expired", whatever its uses, also when it is exhausted as well.
C7_ExpiredWhenActive ==
    [][\A tokenValue \in TokenParams, platform \in PlatformParams :
           (/\ resp'.op = "PublicDownloadConfig"
            /\ PublicDownloadConfig(tokenValue, platform))
               => \A t \in GetEnrollmentTokenByValue(tokenValue) :
                      (t.active /\ InPast(t))
                          => /\ resp'.status = StatusForbidden
                             /\ resp'.body = "token has expired"]_vars

\* An active token that is both expired and exhausted was answered "expired".
C7_Witness ==
    /\ resp.op = "PublicDownloadConfig"
    /\ resp.body = "token has expired"
    /\ \E t \in tokens : t.token = resp.token /\ t.active /\ InPast(t) /\ Exhausted(t)

\* ======================================================================
\* Properties of the stores under concurrent calls
\* ======================================================================

\* C4: in every state of the store at most one tenant has is_hoster_tenant = true,
\* however the statements of concurrent SetHosterTenant and EnsureHosterTenantExists
\* calls interleave.
C4_AtMostOneHosterTenant == Cardinality(HosterTenants) <= 1

\* The rows of a user with is_default = true, each named by tenant and position.
DefaultRows(userID) ==
    UNION {{<<t, i>> : i \in {j \in 1..Len(Rows(userID, t)) : Rows(userID, t)[j].is_default}} :
              t \in TenantIDs}

\* C5: in every state every user has at most one membership row with is_default =
\* true, whatever the sequence or interleaving of the membership calls.
C5_AtMostOneDefaultTenant ==
    \A userID \in Usernames : Cardinality(DefaultRows(userID)) <= 1

\* ======================================================================
\* Properties of the access middlewares
\* ======================================================================

\* The tenant parameter parses as an integer, and the integer it denotes.
Parses(tenantIDStr) == ~Atoi(tenantIDStr).err
TenantOf(tenantIDStr) == Atoi(tenantIDStr).value

\* A membership row of the user in the tenant exists / exists with the role.
IsMember(userID, tenantID) == Len(Rows(userID, tenantID)) > 0
HoldsRole(userID, tenantID, role) ==
    \E i \in 1..Len(Rows(userID, tenantID)) : Rows(userID, tenantID)[i].role = role

\* C8: TenantAdminMiddleware calls the protected handler only for a session user, a
\* present tenant parameter that parses as an integer, and the admin role of that
\* user in that tenant; a missing or unparseable parameter is denied, and so is the
\* "-1" sentinel.
C8_TenantAdminOnlyIf ==
    [][\A username \in SessionUIDs, tenantIDStr \in TenantParams :
           (/\ mw'.gate = "TenantAdmin" /\ mw'.tenant = tenantIDStr
            /\ TenantAdminMiddleware(username, tenantIDStr))
               => /\ mw'.outcome = "next"
                      => /\ username # ""
                         /\ tenantIDStr # <<>>
                         /\ Parses(tenantIDStr)
                         /\ HoldsRole(username, TenantOf(tenantIDStr), UserTenantRoleAdmin)
                  /\ (tenantIDStr = <<>> \/ ~Parses(tenantIDStr)) => mw'.outcome # "next"
                  /\ tenantIDStr = NoTenantSentinel => mw'.outcome # "next"]_vars

\* TenantAdminMiddleware called the handler for a tenant in which a user is admin.
C8_Witness ==
    /\ mw.gate = "TenantAdmin"
    /\ mw.outcome = "next"
    /\ \E userID \in Usernames : HoldsRole(userID, TenantOf(mw.tenant), UserTenantRoleAdmin)

\* C9: TenantAccessMiddleware calls the protected handler only for a session user
\* and either an empty parameter, the "-1" sentinel, or a parameter that parses and
\* a membership row of that user in that tenant; without a session user the handler
\* is never called, not even with the sentinel.
C9_TenantAccessOnlyIf ==
    [][\A username \in SessionUIDs, tenantIDStr \in TenantParams :
           (/\ mw'.gate = "TenantAccess" /\ mw'.tenant = tenantIDStr
            /\ TenantAccessMiddleware(username, tenantIDStr))
               => /\ mw'.outcome = "next"
                      => /\ username # ""
                         /\ \/ tenantIDStr = <<>>
                            \/ tenantIDStr = NoTenantSentinel
                            \/ /\ Parses(tenantIDStr)
                               /\ IsMember(username, TenantOf(tenantIDStr))
                  /\ username = "" => mw'.outcome = "login"]_vars

\* TenantAccessMiddleware called the handler for the sentinel while some user is a
\* member of no tenant at all.
C9_Witness ==
    /\ mw.gate = "TenantAccess"
    /\ mw.outcome = "next"
    /\ mw.tenant = NoTenantSentinel
    /\ \E userID \in Usernames : \A t \in TenantIDs : ~IsMember(userID, t)

\* C10: TenantOperatorMiddleware calls the protected handler if and only if there is
\* a session user, the tenant parameter is present and parses, and the user's role
\* in that tenant is admin or operator; a member with the role user gets a 403.
C10_TenantOperatorIff ==
    [][\A username \in SessionUIDs, tenantIDStr \in TenantParams :
           (/\ mw'.gate = "TenantOperator" /\ mw'.tenant = tenantIDStr
            /\ TenantOperatorMiddleware(username, tenantIDStr))
               => /\ mw'.outcome = "next"
                      <=> /\ username # ""
                          /\ tenantIDStr # <<>>
                          /\ Parses(tenantIDStr)
                          /\ \/ HoldsRole(username, TenantOf(tenantIDStr), UserTenantRoleAdmin)
                             \/ HoldsRole(username, TenantOf(tenantIDStr),
                                          UserTenantRoleOperator)
                  /\ (/\ username # ""
                      /\ Parses(tenantIDStr)
                      /\ HoldsRole(username, TenantOf(tenantIDStr), UserTenantRoleUser))
                         => mw'.outcome = "error" /\ mw'.status = StatusForbidden]_vars

\* TenantOperatorMiddleware called the handler while nobody is admin of the tenant:
\* an operator was let through.
C10_Witness ==
    /\ mw.gate = "TenantOperator"
    /\ mw.outcome = "next"
    /\ \E userID \in Usernames :
           HoldsRole(userID, TenantOf(mw.tenant), UserTenantRoleOperator)
    /\ \A userID \in Usernames :
           ~HoldsRole(userID, TenantOf(mw.tenant), UserTenantRoleAdmin)

\* ======================================================================
\* Properties of the hoster-admin gate and of all four gates
\* ======================================================================

\* What a gate decided, without the URL parameter the request carried.
Decision(o) == [outcome |-> o.outcome, status |-> o.status, reason |-> o.reason,
                ctx |-> o.ctx]

\* C11: SuperAdminMiddleware calls the protected handler only for a user with the
\* admin role in the tenant flagged as hoster, and its decision is the same for
\* every value of the URL's tenant parameter, the case of an admin of the URL's
\* tenant who is not admin of the hoster tenant included.
C11_SuperAdminIgnoresURLTenant ==
    [][\A username \in SessionUIDs, tenantIDStr \in TenantParams :
           (/\ mw'.gate = "SuperAdmin" /\ mw'.tenant = tenantIDStr
            /\ SuperAdminMiddleware(username, tenantIDStr))
               => /\ mw'.outcome = "next"
                      => /\ username # ""
                         /\ \E h \in HosterTenants :
                                HoldsRole(username, h, UserTenantRoleAdmin)
                  /\ \A other \in TenantParams :
                         Decision(SuperAdminOutcome(username, other)) = Decision(mw')
                  /\ \A t \in TenantIDs :
                         (/\ tenantIDStr = <<DigitChar(t)>>
                          /\ HoldsRole(username, t, UserTenantRoleAdmin)
                          /\ \A h \in HosterTenants :
                                 ~HoldsRole(username, h, UserTenantRoleAdmin))
                             => mw'.outcome # "next"]_vars

\* SuperAdminMiddleware turned a request away whose URL names a tenant with an admin
\* while the one hoster tenant is another tenant and has no admin.
C11_Witness ==
    /\ mw.gate = "SuperAdmin"
    /\ mw.outcome = "error"
    /\ Parses(mw.tenant)
    /\ \E h \in HosterTenants :
           /\ HosterTenants = {h}
           /\ TenantOf(mw.tenant) # h
           /\ \A userID \in Usernames : ~HoldsRole(userID, h, UserTenantRoleAdmin)
    /\ \E userID \in Usernames :
           HoldsRole(userID, TenantOf(mw.tenant), UserTenantRoleAdmin)

\* The gate's four request handlers, by the gate name an outcome carries.
GateNames == {"TenantAccess", "TenantAdmin", "TenantOperator", "SuperAdmin"}

GateRan(gate, username, tenantIDStr) ==
    /\ mw'.gate = gate /\ mw'.tenant = tenantIDStr
    /\ CASE gate = "TenantAccess" -> TenantAccessMiddleware(username, tenantIDStr)
         [] gate = "TenantAdmin" -> TenantAdminMiddleware(username, tenantIDStr)
         [] gate = "TenantOperator" -> TenantOperatorMiddleware(username, tenantIDStr)
         [] gate = "SuperAdmin" -> SuperAdminMiddleware(username, tenantIDStr)

\* The gate addresses a tenant: the hoster-admin gate never does, the tenant-access
\* gate does not for an empty parameter or the sentinel.
AddressesTenant(gate, tenantIDStr) ==
    /\ gate # "SuperAdmin"
    /\ tenantIDStr # <<>>
    /\ gate = "TenantAccess" => tenantIDStr # NoTenantSentinel

\* The user lacks the membership or role the gate requires.
LacksRequired(gate, username, tenantIDStr) ==
    CASE gate = "TenantAccess" -> ~IsMember(username, TenantOf(tenantIDStr))
      [] gate = "TenantAdmin" ->
             ~HoldsRole(username, TenantOf(tenantIDStr), UserTenantRoleAdmin)
      [] gate = "TenantOperator" ->
             /\ ~HoldsRole(username, TenantOf(tenantIDStr), UserTenantRoleAdmin)
             /\ ~HoldsRole(username, TenantOf(tenantIDStr), UserTenantRoleOperator)
      [] gate = "SuperAdmin" ->
             \A h \in HosterTenants : ~HoldsRole(username, h, UserTenantRoleAdmin)

\* C12: at each of the four gates a request without a session user gets the login
\* response, a tenant parameter that does not parse gets a 400, and an authenticated
\* user who lacks the required membership or role, a user with no membership row in
\* the addressed tenant included, gets a 403.
C12_GateFailureStatuses ==
    [][\A gate \in GateNames, username \in SessionUIDs, tenantIDStr \in TenantParams :
           GateRan(gate, username, tenantIDStr)
               => /\ username = "" => mw'.outcome = "login"
                  /\ (/\ username # ""
                      /\ AddressesTenant(gate, tenantIDStr)
                      /\ ~Parses(tenantIDStr))
                         => mw'.outcome = "error" /\ mw'.status = StatusBadRequest
                  /\ (/\ username # ""
                      /\ gate # "SuperAdmin" =>
                             AddressesTenant(gate, tenantIDStr) /\ Parses(tenantIDStr)
                      /\ LacksRequired(gate, username, tenantIDStr))
                         => mw'.outcome = "error" /\ mw'.status = StatusForbidden]_vars

\* C15: whenever one of the four gates calls the protected handler, the request
\* context holds the keys tenant_id and user_id, the latter with the session user.
C15_ContextSetOnNext ==
    [][\A gate \in GateNames, username \in SessionUIDs, tenantIDStr \in TenantParams :
           (GateRan(gate, username, tenantIDStr) /\ mw'.outcome = "next")
               => /\ mw'.ctx.user_id = {username}
                  /\ mw'.ctx.tenant_id # {}]_vars

\* ======================================================================
\* Properties of IsSuperAdmin
\* ======================================================================

\* The user is admin of a tenant flagged as hoster.
IsHosterAdmin(userID) ==
    \E h \in HosterTenants : HoldsRole(userID, h, UserTenantRoleAdmin)

\* C13: IsSuperAdmin(u) returns true when u is admin of the tenant flagged as
\* hoster, false when a hoster tenant exists and u is admin only of tenants that are
\* not flagged, and true through the legacy flag when no tenant is flagged and the
\* flag of u is set.
C13_IsSuperAdminCases ==
    [][\A userID \in Usernames :
           IsSuperAdmin(userID)
               => /\ IsHosterAdmin(userID) => superResult'.result
                  /\ (HosterTenants # {} /\ ~IsHosterAdmin(userID))
                         => ~superResult'.result
                  /\ (HosterTenants = {} /\ is_super_admin[userID])
                         => superResult'.result]_vars

\* C14: in every state with at least one tenant flagged as hoster, two flagged
\* tenants included, the return of IsSuperAdmin is the same for every content of
\* the legacy flags.
C14_LegacyFlagOnlyWithoutHoster ==
    [][\A userID \in Usernames :
           (IsSuperAdmin(userID) /\ HosterTenants # {})
               => \A users \in [Usernames -> BOOLEAN] :
                      IsSuperAdminIn(users, userID).result = superResult'.result]_vars

\* ======================================================================
\* Properties of the bundle
\* ======================================================================

\* current_uses of every stored token, by row id.
CurrentUses(rows) == {<<t.id, t.current_uses>> : t \in rows}

\* C16: a redemption attempt that ends without delivering the bundle (400, 403, 404,
\* or 500 for an unreadable CA certificate) leaves current_uses of every token as it
\* was; current_uses changes, if at all, only in an attempt that delivers.
C16_FailedAttemptKeepsUses ==
    [][\A tokenValue \in TokenParams, platform \in PlatformParams :
           (/\ resp'.op = "PublicDownloadConfig"
            /\ PublicDownloadConfig(tokenValue, platform))
               => /\ resp'.status # StatusOK => CurrentUses(tokens') = CurrentUses(tokens)
                  /\ CurrentUses(tokens') # CurrentUses(tokens) => resp'.status = StatusOK
                  /\ resp'.status \in {StatusOK, StatusBadRequest, StatusForbidden,
                                       StatusNotFound, StatusInternalServerError}]_vars

\* A redemption of a stored, active token with uses left ended 500 on the CA
\* certificate.
C16_Witness ==
    /\ resp.op = "PublicDownloadConfig"
    /\ resp.status = StatusInternalServerError
    /\ ~caCertReadable
    /\ \E t \in tokens : t.token = resp.token /\ t.active /\ ~UsageLimitReached(t)

\* scheme://host, scheme://host:port, each with or without a path after it
SchemeNames == {<<"tls">>, <<"tls", "4433">>}
HostNames == {<<"tls">>, <<"4433">>, <<"tls", "tls">>}
PortNames == {<<"4433">>, <<"4433", "4433">>}
PathNames == {<<>>, <<"/">>, <<"/", "tls">>}

\* C17: for a non-empty domain and an internal URL that parses, deriveExternalNATSURL
\* returns scheme://domain:port with the scheme and the port of the internal URL, and
\* with port 4433 when the internal URL has none; for an empty domain or an internal
\* URL that does not parse it returns the internal URL as it is.
C17_DerivedBrokerURL ==
    (pure.fn = "deriveExternalNATSURL" /\ pure.returns # <<>>)
        => LET internalNATS == pure.args[1]
               domain == pure.args[2]
               out == pure.returns[1]
               u == url_Parse(internalNATS)
           IN  /\ (domain = <<>> \/ u.err) => out = internalNATS
               /\ (domain # <<>> /\ ~u.err)
                      => out = u.Scheme \o <<":", "/", "/">> \o domain \o <<":">>
                                   \o (IF Port(u) = <<>> THEN <<"4433">> ELSE Port(u))
               /\ \A scheme \in SchemeNames, host \in HostNames, path \in PathNames :
                      /\ (/\ domain # <<>>
                          /\ internalNATS = scheme \o <<":", "/", "/">> \o host \o path)
                             => out = scheme \o <<":", "/", "/">> \o domain
                                          \o <<":", "4433">>
                      /\ \A port \in PortNames :
                             (/\ domain # <<>>
                              /\ internalNATS = scheme \o <<":", "/", "/">> \o host
                                                    \o <<":">> \o port \o path)
                                 => out = scheme \o <<":", "/", "/">> \o domain
                                              \o <<":">> \o port
               /\ (internalNATS # <<>> /\ internalNATS[1] = ":") => out = internalNATS
               /\ (\E host \in HostNames :
                       internalNATS = <<"tls", ":", "/", "/">> \o host \o <<":", "tls">>)
                      => out = internalNATS

\* tls://tls:4433 and the domain gave tls://console.example.com:4433.
C17_Witness ==
    /\ pure.fn = "deriveExternalNATSURL"
    /\ pure.args = <<<<"tls", ":", "/", "/", "tls", ":", "4433">>, Domain>>
    /\ pure.returns = <<<<"tls", ":", "/", "/", "console.example.com", ":", "4433">>>>

\* The values of the lines of the [Certificates] section of a document.
CertificatePaths(doc) ==
    {doc[i].value : i \in {j \in 1..Len(doc) : doc[j].section = "Certificates"}}

Contains(path, c) == \E i \in 1..Len(path) : path[i] = c

Values(doc) == {doc[i].value : i \in 1..Len(doc)}

\* C19: the document in the bundle delivered by PublicDownloadConfig and by
\* DownloadConfigZIP contains the token value, the id of the owning tenant, the site
\* id when the token has one, and the derived broker address.
C19_DocumentContents ==
    [][(/\ resp'.op \in {"PublicDownloadConfig", "DownloadConfigZIP"}
        /\ resp'.status = StatusOK)
          => \A t \in tokens :
                 t.token = resp'.token
                     => LET values == Values(resp'.bundle.ini)
                        IN  /\ <<t.token>> \in values
                            /\ <<DigitChar(t.tenant_id)>> \in values
                            /\ \A site \in t.site_id : <<DigitChar(site)>> \in values
                            /\ deriveExternalNATSURL(NATSServers, Domain) \in values]_vars

\* The platform a bundle is for, per platform that GetInstallCommand offers.
Family(platform) ==
    IF platform \in {"macos-amd64", "macos-arm64"} THEN "macos" ELSE platform

\* The platform the redemption endpoint generates the document for, on a delivered
\* response.
TreatedAs(response) == response.bundle.platform

\* C20 as stated: the redemption endpoint accepts each of linux, windows,
\* macos-amd64 and macos-arm64 as itself and treats every other selector exactly
\* as linux, and the selector in the URL that GetInstallCommand emits for a platform
\* is treated by the endpoint as that platform.
C20_SelectorsAsStated ==
    [][/\ \A tokenValue \in TokenParams, platform \in PlatformParams :
              (/\ resp'.op = "PublicDownloadConfig"
               /\ resp'.token = tokenValue
               /\ PublicDownloadConfig(tokenValue, platform))
                  => /\ (platform \in InstallPlatforms /\ resp'.status = StatusOK)
                            => TreatedAs(resp') = platform
                     /\ platform \notin InstallPlatforms
                            => resp' = PublicDownloadConfigResponse(tokenValue, "linux")
       /\ \A tokenID \in TokenIDs, platform \in InstallPlatforms :
              (/\ resp'.op = "GetInstallCommand"
               /\ resp'.status = StatusOK
               /\ GetInstallCommand(tokenID, platform))
                  => LET command == resp'.bundle.command
                         r == PublicDownloadConfigResponse(command.token, command.selector)
                     IN  r.status = StatusOK => TreatedAs(r) = platform]_vars

\* C20: the redemption endpoint accepts each of linux, macos and windows as itself
\* and answers every other selector (macos-amd64, macos-arm64 and the empty one
\* included) exactly as it answers linux; the selector in the URL that
\* GetInstallCommand emits for linux, macos-amd64, macos-arm64 or windows is one the
\* endpoint accepts as itself, and it is linux, macos, macos, windows in that order.
C20_SelectorsAccepted ==
    [][/\ \A tokenValue \in TokenParams, platform \in PlatformParams :
              (/\ resp'.op = "PublicDownloadConfig"
               /\ resp'.token = tokenValue
               /\ PublicDownloadConfig(tokenValue, platform))
                  => /\ (platform \in {"linux", "macos", "windows"}
                            /\ resp'.status = StatusOK)
                            => TreatedAs(resp') = platform
                     /\ platform \notin {"linux", "macos", "windows"}
                            => resp' = PublicDownloadConfigResponse(tokenValue, "linux")
       /\ \A tokenID \in TokenIDs, platform \in PlatformParams :
              (/\ resp'.op = "GetInstallCommand"
               /\ resp'.status = StatusOK
               /\ GetInstallCommand(tokenID, platform))
                  => LET command == resp'.bundle.command
                         offered == IF platform \in InstallPlatforms THEN platform
                                    ELSE "linux"
                         r == PublicDownloadConfigResponse(command.token, command.selector)
                     IN  /\ resp'.bundle.platform = offered
                         /\ command.selector = Family(offered)
                         /\ r.status = StatusOK => TreatedAs(r) = Family(offered)]_vars

\* The install command for macos-arm64 of a token that is redeemable carries the
\* selector macos, which the endpoint answers with a macos bundle.
C20_Witness ==
    /\ resp.op = "GetInstallCommand"
    /\ resp.status = StatusOK
    /\ resp.bundle.platform = "macos-arm64"
    /\ resp.bundle.command.selector = "macos"
    /\ LET r == PublicDownloadConfigResponse(resp.bundle.command.token,
                                             resp.bundle.command.selector)
       IN  r.status = StatusOK /\ TreatedAs(r) = "macos"

\* The steps of the run so far that the statement names, with their outcomes.
InstallSteps == <<"fetch-bundle", "unpack", "fetch-package", "install", "cleanup">>
Ran == SelectSeq(install.ran, LAMBDA r : \E i \in 1..5 : InstallSteps[i] = r.name)

\* C21: in a run of the one-liner of any platform the steps fetch-bundle, unpack,
\* fetch-package, install, cleanup run in that order, no step runs after a step
\* that failed, and cleanup runs only after the four steps before it succeeded.
C21_FailureAbortsInstall ==
    /\ \A i \in 1..Len(Ran) : Ran[i].name = InstallSteps[i]
    /\ \A i \in 1..Len(Ran) : ~Ran[i].ok => i = Len(Ran)
    /\ Len(Ran) = 5 => \A i \in 1..4 : Ran[i].ok

\* C22: a call of IsSuperAdmin for a stored user whose legacy flag and derived
\* hoster-admin result disagree, or that takes the legacy fallback path, writes a
\* line to the log.
C22_AmbiguityLogged ==
    [][\A userID \in Usernames :
           (/\ superResult'.user = userID
            /\ IsSuperAdmin(userID))
               => ((\/ is_super_admin[userID] # IsHosterAdmin(userID)
                    \/ superResult'.path = "legacy")
                       => log' # {})]_vars

\* The redemption of a stored token as the store has it in this state.
JudgedFresh(t, r) ==
    /\ ~t.active => (r.status = StatusForbidden /\ r.body = "token is inactive")
    /\ t.active
           => /\ r.body # "token is inactive"
              /\ IsExpired(t, now) <=> r.body = "token has expired"
              /\ (~IsExpired(t, now) /\ UsageLimitReached(t))
                     <=> r.body = "token usage limit reached"

\* C23: every redemption is judged on the store as it is at that moment: an
\* inactive stored token is denied as inactive, an active one is judged by expiry
\* and usage only, a value that is not stored is not found; and when
\* ToggleEnrollmentToken(id, false), ToggleEnrollmentToken(id, true) or
\* DeleteEnrollmentToken(id) completes, the redemption of that token in the state
\* it leaves is denied as inactive, judged by expiry and usage, not found.
C23_ValidityReevaluated ==
    [][/\ \A tokenValue \in UUIDs, platform \in PlatformParams :
              (/\ resp'.op = "PublicDownloadConfig"
               /\ resp'.token = tokenValue
               /\ PublicDownloadConfig(tokenValue, platform))
                  => /\ \A t \in tokens : t.token = tokenValue => JudgedFresh(t, resp')
                     /\ (\A t \in tokens : t.token # tokenValue)
                            => resp'.status = StatusNotFound
       /\ \A tokenID \in TokenIDs, active \in BOOLEAN :
              (/\ resp'.op = "ToggleEnrollmentToken"
               /\ ToggleEnrollmentToken(tokenID, active))
                  => \A t \in tokens :
                         t.id = tokenID
                             => LET r == PublicDownloadConfigResponse(t.token, "linux")'
                                IN  /\ SetActive(t, active) \in tokens'
                                    /\ JudgedFresh(SetActive(t, active), r)
                                    /\ ~active => r.body = "token is inactive"
       /\ \A tokenID \in TokenIDs :
              (/\ resp'.op = "DeleteEnrollmentToken"
               /\ DeleteEnrollmentToken(tokenID))
                  => \A t \in tokens :
                         t.id = tokenID
                             => PublicDownloadConfigResponse(t.token, "linux")'.status
                                    = StatusNotFound]_vars

\* A redemption was denied as inactive: the token is stored with the flag off,
\* which only a completed ToggleEnrollmentToken(id, false) brings about.
C23_Witness ==
    /\ resp.op = "PublicDownloadConfig"
    /\ resp.body = "token is inactive"
    /\ \E t \in tokens : t.token = resp.token /\ ~t.active

\* The ids stored, and current_uses of every stored row by id.
TokenIDsOf(rows) == {t.id : t \in rows}
KeepsUses ==
    \A t \in tokens : \A u \in tokens' : u.id = t.id => u.current_uses = t.current_uses

\* C24: CreateEnrollmentToken, ListEnrollmentTokens, ToggleEnrollmentToken,
\* DownloadConfigZIP, DownloadInstallerScript and GetInstallCommand leave
\* current_uses of every stored token as it was, and a token that
\* CreateEnrollmentToken stores has current_uses = 0.
C24_AdminKeepsUses ==
    [][/\ \A tenantID \in TenantIDs, siteID \in SiteInputs :
              (/\ resp'.op = "CreateEnrollmentToken"
               /\ CreateEnrollmentToken(tenantID, siteID, 0, {}))
                  => /\ KeepsUses
                     /\ TokenIDsOf(tokens') # TokenIDsOf(tokens)
                     /\ \A u \in tokens' :
                            u.id \notin TokenIDsOf(tokens) => u.current_uses = 0
       /\ \A tenantID \in TenantIDs :
              (resp'.op = "ListEnrollmentTokens" /\ ListEnrollmentTokens(tenantID))
                  => KeepsUses
       /\ \A tokenID \in TokenIDs, active \in BOOLEAN :
              (resp'.op = "ToggleEnrollmentToken" /\ ToggleEnrollmentToken(tokenID, active))
                  => KeepsUses
       /\ \A tokenID \in TokenIDs :
              (resp'.op = "DownloadConfigZIP" /\ DownloadConfigZIP(tokenID)) => KeepsUses
       /\ \A tokenID \in TokenIDs, platform \in ScriptPlatforms, written \in BOOLEAN :
              (/\ resp'.op = "DownloadInstallerScript"
               /\ DownloadInstallerScript(tokenID, platform, written))
                  => KeepsUses
       /\ \A tokenID \in TokenIDs, platform \in ScriptPlatforms :
              (resp'.op = "GetInstallCommand" /\ GetInstallCommand(tokenID, platform))
                  => KeepsUses]_vars

\* A token with uses on it was toggled off; another token was created before.
C24_Witness ==
    /\ resp.op = "ToggleEnrollmentToken"
    /\ resp.body = "EnrollmentTokens"
    /\ \E t \in tokens : t.id = 1 /\ t.current_uses > 0 /\ ~t.active
    /\ \E t \in tokens : t.id = 2 /\ t.current_uses = 0

\* C25: a request admitted for tenant T that names a token id in
\* ToggleEnrollmentToken, DeleteEnrollmentToken, DownloadConfigZIP,
\* DownloadInstallerScript or GetInstallCommand leaves every token of another tenant
\* as it was and does not return its value.
C25_TenantScopedTokens ==
    [][\A tokenID \in TokenIDs :
           (/\ Admitted
            /\ resp'.op \in {"ToggleEnrollmentToken", "DeleteEnrollmentToken",
                             "DownloadConfigZIP", "DownloadInstallerScript",
                             "GetInstallCommand"}
            /\ \/ \E active \in BOOLEAN : ToggleEnrollmentToken(tokenID, active)
               \/ DeleteEnrollmentToken(tokenID)
               \/ DownloadConfigZIP(tokenID)
               \/ \E platform \in ScriptPlatforms, written \in BOOLEAN :
                      DownloadInstallerScript(tokenID, platform, written)
               \/ \E platform \in ScriptPlatforms : GetInstallCommand(tokenID, platform))
               => \A t \in tokens :
                      (t.id = tokenID /\ t.tenant_id # RequestTenant)
                          => /\ t \in tokens'
                             /\ resp'.token # t.token]_vars

\* C26: SuperAdminMiddleware calls the protected handler for a user if and only if
\* IsSuperAdmin returns true for that user in the same state.
C26_GateAgreesWithResolver ==
    [][\A username \in Usernames, tenantIDStr \in {<<>>, <<"1">>} :
           (/\ mw'.gate = "SuperAdmin"
            /\ SuperAdminMiddleware(username, tenantIDStr))
               => (mw'.outcome = "next"
                       <=> (/\ ~IsSuperAdminResult(username).err
                            /\ IsSuperAdminResult(username).result))]_vars

====
